---------------------------- MODULE Spec2Model ----------------------------
(***************************************************************************)
(* Model of the helper functions shared by the STFT-CNN and LDC-Unet       *)
(* notebooks: load_spectrogram_h5s, convert_spectrogram_dict_to_xy,        *)
(* prepare_dataloader and the three variants of train_model.               *)
(*                                                                         *)
(* Every function is a small state machine whose program counter walks     *)
(* through the statements of its body.  Each function has a specification  *)
(* of its own (SpecTrain, SpecLoad, SpecConv, SpecPrep); the variables of  *)
(* the functions that are not running stay at their idle values.           *)
(***************************************************************************)
EXTENDS Integers, Sequences, FiniteSets, TLC

VARIABLES
    \* ---- train_model: arguments
    variant,          \* which notebook section the function belongs to
    epochs,           \* argument epochs
    patience,         \* argument patience
    min_delta,        \* argument min_delta
    scheduler,        \* TRUE iff a scheduler object was passed (not None)
    nb,               \* len(train_loader): number of batches per epoch
    \* ---- train_model: locals
    tpc,              \* position in the body of train_model
    epoch,            \* loop variable of "for epoch in range(epochs)"
    batch,            \* number of batches already drawn from progress_bar
    total_loss,       \* local total_loss
    loss_history,     \* local loss_history
    best_loss,        \* local best_loss
    patience_counter, \* local patience_counter
    \* ---- train_model: the objects it acts on
    training,         \* model.training (TRUE after model.train())
    grad,             \* state of the parameters' .grad buffers
    opt_steps,        \* number of optimizer.step() calls
    sched_steps,      \* number of scheduler.step() calls
    checkpoint,       \* content of model_latest.pth: <<>> or <<opt_steps at save>>
    ops,              \* calls made for the batch being processed, in order
    epoch_items,      \* the values loss.item() returned in the current epoch
    trace,            \* epoch-level events: <<kind, epoch>>
    \* ---- the criterion object passed to train_model
    centers,          \* number of updates applied to criterion.centers
    centers_grad,     \* state of criterion.centers.grad
    \* ---- load_spectrogram_h5s
    mod_types,        \* argument mod_types
    lpc,              \* position in the body of load_spectrogram_h5s
    mi,               \* number of entries of mod_types already taken
    files,            \* local files: the .h5 names of the current directory
    fi,               \* number of entries of files already taken
    mod_name,         \* local mod_name
    keys,             \* h5f.keys() of the file that is open
    ki,               \* number of keys already taken
    spectrogram_dict, \* local spectrogram_dict
    printed,          \* what was printed: <<kind, path>>
    seen_dirs,        \* what the file system showed of each mod_path
    seen_files,       \* what the file system showed of each file opened
    \* ---- convert_spectrogram_dict_to_xy
    data_dict,        \* argument data_dict
    cpc,              \* position in the body of convert_spectrogram_dict_to_xy
    li,               \* number of items of data_dict already taken
    sorted_idx,       \* sorted(spectros.keys()) of the current item
    si,               \* number of entries of sorted_idx already taken
    X_list,           \* local X_list
    y_list,           \* local y_list
    X_arr,            \* local X after X = np.array(X_list)
    y_arr,            \* local y after y = np.array(y_list)
    \* ---- prepare_dataloader
    X,                \* parameter X, rebound by the function
    y,                \* parameter y, rebound by the function
    batch_size,       \* argument batch_size
    ppc,              \* position in the body of prepare_dataloader
    dataset,          \* local dataset
    loader,           \* local loader
    error,            \* the exception prepare_dataloader raised, if any
    \* ---- evaluate_model / display_confusion_matrix
    efn,              \* which of the two functions is called
    epc,              \* position in the body of the function
    eloader,          \* argument test_loader: the labels of its batches
    ei,               \* number of batches already drawn
    labels,           \* local labels of the current batch
    preds,            \* local preds of the current batch
    correct,          \* local correct
    total,            \* local total
    y_true,           \* local y_true (all_labels)
    y_pred,           \* local y_pred (all_preds)
    accuracy,         \* local accuracy: <<>> until assigned, then <<value>>
    grad_enabled,     \* torch.is_grad_enabled()
    prev_grad,        \* the mode torch.no_grad() puts back on exit
    fwd,              \* the forward passes made: function, model.training, grad mode
    \* ---- the interpreter session
    calls,            \* the functions called on the model so far, in order
    \* ---- a notebook run top to bottom
    ncell,            \* number of code cells that have run to their end
    defined,          \* the names bound in the kernel
    stages,           \* the calls made into the pipeline, in order
    disk,             \* the files written by the cells
    halted,           \* the exception that stopped the run ("": none)
    \* ---- SSRLoss.forward
    spc,              \* position in forward
    features,         \* argument: one row of feature_dim values per sample
    ssr_labels,       \* argument labels: one class index per sample
    logits,           \* argument: one row per sample
    self_centers,     \* self.centers: one row of feature_dim values per class
    lambda_reg,       \* self.lambda_reg
    loss_softmax, centers_batch, loss_reg,   \* locals of forward
    loss,             \* the value returned
    \* ---- pre_processing
    qpc,              \* position in pre_processing
    images,           \* argument
    image_index,      \* position of `image` in images (1-based; 0: before the loop)
    iteration,        \* rounds of the inner loop made for the current image
    resized_image, processed_image, processed_images,   \* locals
    returned,         \* the array returned
    \* ---- MainModel.forward
    mpc,              \* position in forward
    num_classes,      \* argument of MainModel(num_classes)
    input_shape,      \* shape of the argument x of forward
    x_shape,          \* shape of the local x
    layer_shapes,     \* the shapes the layers have produced, in order
    \* ---- LDC_Unet.forward
    upc,              \* position in forward, or in the module it has called
    tensors,          \* the locals of LDC_Unet.forward that are bound
    frame,            \* the locals of the encoder or decoder being run
    ulog              \* the convolutions and concatenations made, in order

trainVars == <<variant, epochs, patience, min_delta, scheduler, nb, tpc, epoch,
               batch, total_loss, loss_history, best_loss, patience_counter,
               training, grad, opt_steps, sched_steps, checkpoint, ops,
               epoch_items, trace>>

loadVars == <<mod_types, lpc, mi, files, fi, mod_name, keys, ki,
              spectrogram_dict, printed, seen_dirs, seen_files>>

convVars == <<data_dict, cpc, li, sorted_idx, si, X_list, y_list, X_arr, y_arr>>

prepVars == <<X, y, batch_size, ppc, dataset, loader, error>>

critVars == <<centers, centers_grad>>

evalVars == <<efn, epc, eloader, ei, labels, preds, correct, total, y_true,
              y_pred, accuracy, grad_enabled, prev_grad, fwd>>

nbVars == <<ncell, defined, stages, disk, halted>>

ssrVars == <<spc, features, ssr_labels, logits, self_centers, lambda_reg,
             loss_softmax, centers_batch, loss_reg, loss>>

\* the variables no function of the pipeline touches
preVars == <<qpc, images, image_index, iteration, resized_image, processed_image,
             processed_images, returned>>
modelVars == <<mpc, num_classes, input_shape, x_shape, layer_shapes>>

\* the variables no function of the pipeline touches
unetVars == <<upc, tensors, frame, ulog>>
otherVars == <<nbVars, ssrVars, preVars, modelVars, unetVars>>

vars == <<trainVars, critVars, loadVars, convVars, prepVars, evalVars, calls,
          otherVars>>

\* a step of one function leaves the variables of the others alone
TrainStep == UNCHANGED <<loadVars, convVars, prepVars, evalVars, calls, otherVars>>
\* a step of train_model that does not touch the parameters of the criterion
TrainOnly == TrainStep /\ UNCHANGED critVars
LoadOnly == UNCHANGED <<trainVars, critVars, convVars, prepVars, evalVars, calls, otherVars>>
ConvOnly == UNCHANGED <<trainVars, critVars, loadVars, prepVars, evalVars, calls, otherVars>>
PrepOnly == UNCHANGED <<trainVars, critVars, loadVars, convVars, evalVars, calls, otherVars>>

-----------------------------------------------------------------------------
(* Bounds of the model.                                                    *)

MaxEpochs == 3
MaxBatches == 2

-----------------------------------------------------------------------------
(* Python floats.  A float is NaN, +infinity or a finite value, kept as    *)
(* the exact fraction num/den (den > 0).                                   *)

NaN == [k |-> "nan", num |-> 0, den |-> 1]
Inf == [k |-> "inf", num |-> 0, den |-> 1]
Fin(n, d) == [k |-> "fin", num |-> n, den |-> d]

\* a + b
FAdd(a, b) ==
    IF a.k = "nan" \/ b.k = "nan" THEN NaN
    ELSE IF a.k = "inf" \/ b.k = "inf" THEN Inf
    ELSE IF a.den = b.den THEN Fin(a.num + b.num, a.den)
    ELSE Fin(a.num * b.den + b.num * a.den, a.den * b.den)

\* a - d, d an integer
FSubInt(a, d) ==
    IF a.k = "fin" THEN Fin(a.num - d * a.den, a.den) ELSE a

\* a / n, n a positive integer
FDivInt(a, n) ==
    IF a.k = "fin" THEN Fin(a.num, a.den * n) ELSE a

\* a < b : every comparison with NaN is False
FLess(a, b) ==
    IF a.k = "nan" \/ b.k = "nan" THEN FALSE
    ELSE IF a.k = "inf" THEN FALSE
    ELSE IF b.k = "inf" THEN TRUE
    ELSE a.num * b.den < b.num * a.den

\* a == b as Python compares floats
FEq(a, b) ==
    IF a.k = "nan" \/ b.k = "nan" THEN FALSE
    ELSE IF a.k = "inf" \/ b.k = "inf" THEN a.k = b.k
    ELSE a.num * b.den = b.num * a.den

RECURSIVE FSum(_)
FSum(s) == IF s = <<>> THEN Fin(0, 1) ELSE FAdd(FSum(SubSeq(s, 1, Len(s) - 1)), s[Len(s)])

-----------------------------------------------------------------------------
(* train_model                                                             *)

Variants == {"STFT_CNN", "LDC_Unet", "LPI_Net"}

\* the values loss.item() may return
LossItems == {Fin(0, 1), Fin(1, 1), NaN}
Patiences == 0 .. (MaxEpochs - 1)
MinDeltas == {-1, 0, 1}

TrainIdle ==
    /\ variant = "STFT_CNN" /\ epochs = 0 /\ patience = 0 /\ min_delta = 0
    /\ scheduler = FALSE /\ nb = 0 /\ tpc = "idle" /\ epoch = -1 /\ batch = 0
    /\ total_loss = Fin(0, 1) /\ loss_history = <<>> /\ best_loss = Inf
    /\ patience_counter = 0 /\ training = FALSE /\ grad = "none"
    /\ opt_steps = 0 /\ sched_steps = 0 /\ checkpoint = <<>> /\ ops = <<>>
    /\ epoch_items = <<>> /\ trace = <<>>
    /\ centers = 0 /\ centers_grad = "none"

\* the parameters the notebooks hand to the optimizer: model.parameters()
OptimizerParams == {"model"}
\* the parameters loss.backward() reaches: those of the model and, when the
\* criterion is an SSRLoss (LDC-Unet), its centers
LossParams(v) == IF v = "LDC_Unet" THEN {"model", "centers"} ELSE {"model"}

\* the call train_model(model, train_loader, device, criterion, optimizer,
\* scheduler, epochs, patience, min_delta), before its first statement
TrainCall ==
    /\ variant \in Variants
    /\ epochs \in 0 .. MaxEpochs
    /\ patience \in Patiences
    /\ min_delta \in MinDeltas
    /\ scheduler \in BOOLEAN
    /\ nb \in 0 .. MaxBatches
    /\ tpc = "entry" /\ epoch = -1 /\ batch = 0
    /\ total_loss = Fin(0, 1) /\ loss_history = <<>> /\ best_loss = Inf
    /\ patience_counter = 0 /\ training \in BOOLEAN /\ grad = "none"
    /\ opt_steps = 0 /\ sched_steps = 0 /\ checkpoint = <<>> /\ ops = <<>>
    /\ epoch_items = <<>> /\ trace = <<>>
    /\ centers = 0 /\ centers_grad = "none"

\* TrainEntry with best_loss = 0.0 in the place of float("inf")
TrainEntryBestZero ==
    /\ TrainOnly
    /\ tpc = "entry"
    /\ training' = TRUE
    /\ loss_history' = <<>>
    /\ best_loss' = Fin(0, 1)
    /\ patience_counter' = 0
    /\ tpc' = "epoch_head"
    /\ UNCHANGED <<variant, epochs, patience, min_delta, scheduler, nb, epoch,
                   batch, total_loss, grad, opt_steps, sched_steps, checkpoint,
                   ops, epoch_items, trace>>

\* runs of more than five epochs: the number of epochs
MaxLongEpochs == 6
\* patience as the LDC-Unet train_model defaults it and as the notebooks pass it
LongPatiences == {3, 50}

\* the call train_model(..., epochs=epochs, patience=patience) on a loader of
\* one batch, min_delta left at its default 0.0
LongCall ==
    /\ variant \in Variants
    /\ epochs \in 0 .. MaxLongEpochs
    /\ patience \in LongPatiences
    /\ min_delta = 0
    /\ scheduler \in BOOLEAN
    /\ nb = 1
    /\ tpc = "entry" /\ epoch = -1 /\ batch = 0
    /\ total_loss = Fin(0, 1) /\ loss_history = <<>> /\ best_loss = Inf
    /\ patience_counter = 0 /\ training = FALSE /\ grad = "none"
    /\ opt_steps = 0 /\ sched_steps = 0 /\ checkpoint = <<>> /\ ops = <<>>
    /\ epoch_items = <<>> /\ trace = <<>>
    /\ centers = 0 /\ centers_grad = "none"

\* model.to(device); model.train(); loss_history = []; best_loss = inf;
\* patience_counter = 0
TrainEntry ==
    /\ TrainOnly
    /\ tpc = "entry"
    /\ training' = TRUE
    /\ loss_history' = <<>>
    /\ best_loss' = Inf
    /\ patience_counter' = 0
    /\ tpc' = "epoch_head"
    /\ UNCHANGED <<variant, epochs, patience, min_delta, scheduler, nb, epoch,
                   batch, total_loss, grad, opt_steps, sched_steps, checkpoint,
                   ops, epoch_items, trace>>

\* EpochHead with range(epochs + 1) in the place of range(epochs)
EpochHeadOneMore ==
    /\ TrainOnly
    /\ tpc = "epoch_head"
    /\ IF epoch + 1 < epochs + 1
       THEN /\ epoch' = epoch + 1
            /\ total_loss' = Fin(0, 1)
            /\ batch' = 0
            /\ epoch_items' = <<>>
            /\ trace' = Append(trace, <<"epoch", epoch + 1>>)
            /\ tpc' = "batch_head"
       ELSE /\ tpc' = "return"
            /\ UNCHANGED <<epoch, total_loss, batch, epoch_items, trace>>
    /\ UNCHANGED <<variant, epochs, patience, min_delta, scheduler, nb,
                   loss_history, best_loss, patience_counter, training, grad,
                   opt_steps, sched_steps, checkpoint, ops>>

\* for epoch in range(epochs): total_loss = 0.0; progress_bar = tqdm(...)
EpochHead ==
    /\ TrainOnly
    /\ tpc = "epoch_head"
    /\ IF epoch + 1 < epochs
       THEN /\ epoch' = epoch + 1
            /\ total_loss' = Fin(0, 1)
            /\ batch' = 0
            /\ epoch_items' = <<>>
            /\ trace' = Append(trace, <<"epoch", epoch + 1>>)
            /\ tpc' = "batch_head"
       ELSE /\ tpc' = "return"
            /\ UNCHANGED <<epoch, total_loss, batch, epoch_items, trace>>
    /\ UNCHANGED <<variant, epochs, patience, min_delta, scheduler, nb,
                   loss_history, best_loss, patience_counter, training, grad,
                   opt_steps, sched_steps, checkpoint, ops>>

\* for inputs, labels in progress_bar: inputs.to(device); labels.to(device)
BatchHead ==
    /\ TrainOnly
    /\ tpc = "batch_head"
    /\ IF batch < nb
       THEN /\ batch' = batch + 1
            /\ ops' = <<>>
            /\ tpc' = "zero_grad"
       ELSE /\ tpc' = "avg"
            /\ UNCHANGED <<batch, ops>>
    /\ UNCHANGED <<variant, epochs, patience, min_delta, scheduler, nb, epoch,
                   total_loss, loss_history, best_loss, patience_counter,
                   training, grad, opt_steps, sched_steps, checkpoint,
                   epoch_items, trace>>

\* the part of a batch step that is the same for all calls
BatchFrame ==
    UNCHANGED <<variant, epochs, patience, min_delta, scheduler, nb, epoch,
                batch, loss_history, best_loss, patience_counter, training,
                sched_steps, checkpoint, epoch_items, trace>>

\* optimizer.zero_grad()
ZeroGrad ==
    /\ TrainStep
    /\ tpc = "zero_grad"
    /\ grad' = "zero"
    /\ centers_grad' = IF "centers" \in OptimizerParams THEN "zero" ELSE centers_grad
    /\ centers' = centers
    /\ ops' = Append(ops, "zero_grad")
    /\ tpc' = "forward"
    /\ UNCHANGED <<total_loss, opt_steps>>
    /\ BatchFrame

\* output_class = model(inputs)        (features, logits = model(inputs))
Forward ==
    /\ TrainOnly
    /\ tpc = "forward"
    /\ ops' = Append(ops, "forward")
    /\ tpc' = "criterion"
    /\ UNCHANGED <<total_loss, grad, opt_steps>>
    /\ BatchFrame

\* loss = criterion(output_class, labels)
Criterion ==
    /\ TrainOnly
    /\ tpc = "criterion"
    /\ ops' = Append(ops, "loss")
    /\ tpc' = "backward"
    /\ UNCHANGED <<total_loss, grad, opt_steps>>
    /\ BatchFrame

\* Backward with optimizer.step() following in every variant
BackwardNoClip ==
    /\ TrainStep
    /\ tpc = "backward"
    /\ grad' = IF grad = "zero" THEN "fresh" ELSE "stale"
    /\ centers_grad' = IF "centers" \notin LossParams(variant) THEN centers_grad
                       ELSE IF centers_grad \in {"none", "zero"} THEN "fresh"
                       ELSE "stale"
    /\ centers' = centers
    /\ ops' = Append(ops, "backward")
    /\ tpc' = "step"
    /\ UNCHANGED <<total_loss, opt_steps>>
    /\ UNCHANGED <<variant, epochs, patience, min_delta, scheduler, nb, epoch,
                   batch, loss_history, best_loss, patience_counter, training,
                   sched_steps, checkpoint, epoch_items, trace>>

\* loss.backward(): gradients are accumulated into .grad
Backward ==
    /\ TrainStep
    /\ tpc = "backward"
    /\ grad' = IF grad = "zero" THEN "fresh" ELSE "stale"
    /\ centers_grad' = IF "centers" \notin LossParams(variant) THEN centers_grad
                       ELSE IF centers_grad \in {"none", "zero"} THEN "fresh"
                       ELSE "stale"
    /\ centers' = centers
    /\ ops' = Append(ops, "backward")
    /\ tpc' = IF variant = "LPI_Net" THEN "clip" ELSE "step"
    /\ UNCHANGED <<total_loss, opt_steps>>
    /\ BatchFrame

\* torch.nn.utils.clip_grad_norm_(model.parameters(), max_norm=1.0)
ClipGradNorm ==
    /\ TrainOnly
    /\ tpc = "clip"
    /\ grad' = IF grad = "fresh" THEN "clipped" ELSE grad
    /\ ops' = Append(ops, "clip")
    /\ tpc' = "step"
    /\ UNCHANGED <<total_loss, opt_steps>>
    /\ BatchFrame

\* optimizer.step()
OptimizerStep ==
    /\ TrainStep
    /\ tpc = "step"
    /\ opt_steps' = opt_steps + 1
    /\ centers' = IF "centers" \in OptimizerParams THEN centers + 1 ELSE centers
    /\ centers_grad' = centers_grad
    /\ ops' = Append(ops, "step")
    /\ tpc' = "item"
    /\ UNCHANGED <<total_loss, grad>>
    /\ BatchFrame

\* total_loss += loss.item(); progress_bar.set_postfix(...)
Accumulate ==
    /\ TrainOnly
    /\ tpc = "item"
    /\ \E item \in LossItems :
          /\ total_loss' = FAdd(total_loss, item)
          /\ epoch_items' = Append(epoch_items, item)
    /\ tpc' = "batch_head"
    /\ UNCHANGED <<variant, epochs, patience, min_delta, scheduler, nb, epoch,
                   batch, loss_history, best_loss, patience_counter, training,
                   grad, opt_steps, sched_steps, checkpoint, ops, trace>>

\* AvgLoss with the division left out
AvgLossNoDivision ==
    /\ TrainOnly
    /\ tpc = "avg"
    /\ IF nb = 0
       THEN /\ tpc' = "raised"
            /\ UNCHANGED <<loss_history, trace>>
       ELSE /\ loss_history' = Append(loss_history, total_loss)
            /\ trace' = Append(trace, <<"avg", epoch>>)
            /\ tpc' = IF variant = "LDC_Unet" THEN "save" ELSE "sched"
    /\ UNCHANGED <<variant, epochs, patience, min_delta, scheduler, nb, epoch,
                   batch, total_loss, best_loss, patience_counter, training,
                   grad, opt_steps, sched_steps, checkpoint, ops, epoch_items>>

\* avg_loss = total_loss / len(train_loader); loss_history.append(avg_loss)
\* Dividing by len(train_loader) = 0 raises ZeroDivisionError.
AvgLoss ==
    /\ TrainOnly
    /\ tpc = "avg"
    /\ IF nb = 0
       THEN /\ tpc' = "raised"
            /\ UNCHANGED <<loss_history, trace>>
       ELSE /\ loss_history' = Append(loss_history, FDivInt(total_loss, nb))
            /\ trace' = Append(trace, <<"avg", epoch>>)
            /\ tpc' = IF variant = "LDC_Unet" THEN "save" ELSE "sched"
    /\ UNCHANGED <<variant, epochs, patience, min_delta, scheduler, nb, epoch,
                   batch, total_loss, best_loss, patience_counter, training,
                   grad, opt_steps, sched_steps, checkpoint, ops, epoch_items>>

\* SaveLatest with the test epoch % 5 == 0
SaveLatestEveryFifth ==
    /\ TrainOnly
    /\ tpc = "save"
    /\ IF epoch % 5 = 0
       THEN /\ checkpoint' = <<opt_steps>>
            /\ trace' = Append(trace, <<"save", epoch>>)
       ELSE UNCHANGED <<checkpoint, trace>>
    /\ tpc' = "sched"
    /\ UNCHANGED <<variant, epochs, patience, min_delta, scheduler, nb, epoch,
                   batch, total_loss, loss_history, best_loss, patience_counter,
                   training, grad, opt_steps, sched_steps, ops, epoch_items>>

\* if epoch % 5: torch.save(model, "model_latest.pth")      (LDC-Unet only)
SaveLatest ==
    /\ TrainOnly
    /\ tpc = "save"
    /\ IF epoch % 5 # 0
       THEN /\ checkpoint' = <<opt_steps>>
            /\ trace' = Append(trace, <<"save", epoch>>)
       ELSE UNCHANGED <<checkpoint, trace>>
    /\ tpc' = "sched"
    /\ UNCHANGED <<variant, epochs, patience, min_delta, scheduler, nb, epoch,
                   batch, total_loss, loss_history, best_loss, patience_counter,
                   training, grad, opt_steps, sched_steps, ops, epoch_items>>

\* SchedulerStep with the scheduler stepped only on epochs that go on
SchedulerStepUnlessBreak ==
    /\ TrainOnly
    /\ tpc = "sched"
    /\ IF scheduler /\ patience_counter + 1 < patience
       THEN /\ sched_steps' = sched_steps + 1
            /\ trace' = Append(trace, <<"sched", epoch>>)
       ELSE UNCHANGED <<sched_steps, trace>>
    /\ tpc' = "early"
    /\ UNCHANGED <<variant, epochs, patience, min_delta, scheduler, nb, epoch,
                   batch, total_loss, loss_history, best_loss, patience_counter,
                   training, grad, opt_steps, checkpoint, ops, epoch_items>>

\* if scheduler: scheduler.step()
SchedulerStep ==
    /\ TrainOnly
    /\ tpc = "sched"
    /\ IF scheduler
       THEN /\ sched_steps' = sched_steps + 1
            /\ trace' = Append(trace, <<"sched", epoch>>)
       ELSE UNCHANGED <<sched_steps, trace>>
    /\ tpc' = "early"
    /\ UNCHANGED <<variant, epochs, patience, min_delta, scheduler, nb, epoch,
                   batch, total_loss, loss_history, best_loss, patience_counter,
                   training, grad, opt_steps, checkpoint, ops, epoch_items>>

\* EarlyStopping with patience_counter left alone on an improvement
EarlyStoppingKeepCounter ==
    /\ TrainOnly
    /\ tpc = "early"
    /\ LET avg_loss == loss_history[Len(loss_history)] IN
       IF FLess(avg_loss, FSubInt(best_loss, min_delta))
       THEN /\ best_loss' = avg_loss
            /\ patience_counter' = patience_counter
            /\ tpc' = "epoch_head"
            /\ trace' = Append(trace, <<"improved", epoch>>)
       ELSE /\ patience_counter' = patience_counter + 1
            /\ best_loss' = best_loss
            /\ IF patience_counter + 1 >= patience
               THEN /\ tpc' = "return"
                    /\ trace' = Append(trace, <<"break", epoch>>)
               ELSE /\ tpc' = "epoch_head"
                    /\ trace' = Append(trace, <<"waited", epoch>>)
    /\ UNCHANGED <<variant, epochs, patience, min_delta, scheduler, nb, epoch,
                   batch, total_loss, loss_history, training, grad, opt_steps,
                   sched_steps, checkpoint, ops, epoch_items>>

\* if avg_loss < best_loss - min_delta: best_loss = avg_loss; patience_counter = 0
\* else: patience_counter += 1; if patience_counter >= patience: break
EarlyStopping ==
    /\ TrainOnly
    /\ tpc = "early"
    /\ LET avg_loss == loss_history[Len(loss_history)] IN
       IF FLess(avg_loss, FSubInt(best_loss, min_delta))
       THEN /\ best_loss' = avg_loss
            /\ patience_counter' = 0
            /\ tpc' = "epoch_head"
            /\ trace' = Append(trace, <<"improved", epoch>>)
       ELSE /\ patience_counter' = patience_counter + 1
            /\ best_loss' = best_loss
            /\ IF patience_counter + 1 >= patience
               THEN /\ tpc' = "return"
                    /\ trace' = Append(trace, <<"break", epoch>>)
               ELSE /\ tpc' = "epoch_head"
                    /\ trace' = Append(trace, <<"waited", epoch>>)
    /\ UNCHANGED <<variant, epochs, patience, min_delta, scheduler, nb, epoch,
                   batch, total_loss, loss_history, training, grad, opt_steps,
                   sched_steps, checkpoint, ops, epoch_items>>

\* return loss_history
TrainReturn ==
    /\ TrainOnly
    /\ tpc = "return"
    /\ tpc' = "returned"
    /\ UNCHANGED <<variant, epochs, patience, min_delta, scheduler, nb, epoch,
                   batch, total_loss, loss_history, best_loss, patience_counter,
                   training, grad, opt_steps, sched_steps, checkpoint, ops,
                   epoch_items, trace>>

NextTrain ==
    \/ TrainEntry \/ EpochHead \/ BatchHead
    \/ ZeroGrad \/ Forward \/ Criterion \/ Backward \/ ClipGradNorm
    \/ OptimizerStep \/ Accumulate
    \/ AvgLoss \/ SaveLatest \/ SchedulerStep \/ EarlyStopping \/ TrainReturn


-----------------------------------------------------------------------------
(* Python dicts: a dict keeps its keys in insertion order, so it is a       *)
(* sequence of <<key, value>> pairs with distinct keys.                     *)

DictHas(d, k) == \E i \in 1 .. Len(d) : d[i][1] = k
DictIndex(d, k) == CHOOSE i \in 1 .. Len(d) : d[i][1] = k
DictGet(d, k) == d[DictIndex(d, k)][2]
\* d[k] = v : a new key goes to the end, an old key keeps its place
DictSet(d, k, v) ==
    IF DictHas(d, k) THEN [d EXCEPT ![DictIndex(d, k)] = <<k, v>>]
    ELSE Append(d, <<k, v>>)
DictKeys(d) == [i \in 1 .. Len(d) |-> d[i][1]]
DictKeySet(d) == {d[i][1] : i \in 1 .. Len(d)}

-----------------------------------------------------------------------------
(* load_spectrogram_h5s                                                    *)

MaxMods == 2

\* names are strings, kept as sequences of characters
DotH5 == <<".", "h", "5">>
EndsWith(name, suffix) ==
    /\ Len(name) >= Len(suffix)
    /\ SubSeq(name, Len(name) - Len(suffix) + 1, Len(name)) = suffix
\* file[:-2]
StripLast2(name) == SubSeq(name, 1, Len(name) - 2)

\* file[:-3]
StripLast3(name) == SubSeq(name, 1, Len(name) - 3)

\* int(key) raises ValueError unless key is a decimal numeral
Digits == {"0", "1", "2"}
IsNumeral(key) == Len(key) > 0 /\ \A i \in 1 .. Len(key) : key[i] \in Digits
DigitValue(c) == CASE c = "0" -> 0 [] c = "1" -> 1 [] c = "2" -> 2
RECURSIVE IntOf(_)
IntOf(key) ==
    IF Len(key) = 0 THEN 0
    ELSE 10 * IntOf(SubSeq(key, 1, Len(key) - 1)) + DigitValue(key[Len(key)])

\* [f for f in listing if f.endswith(".h5")]
RECURSIVE H5Files(_)
H5Files(listing) ==
    IF listing = <<>> THEN <<>>
    ELSE IF EndsWith(listing[1], DotH5) THEN <<listing[1]>> \o H5Files(Tail(listing))
    ELSE H5Files(Tail(listing))

\* the sequences of distinct elements of S of length at most n
RECURSIVE DistinctSeqs(_, _)
DistinctSeqs(S, n) ==
    IF n = 0 THEN {<<>>}
    ELSE LET shorter == DistinctSeqs(S, n - 1)
             fresh == {qx \in shorter \X S :
                          \A i \in 1 .. Len(qx[1]) : qx[1][i] # qx[2]}
         IN shorter \cup {Append(qx[1], qx[2]) : qx \in fresh}

\* what the file system may hold -----------------------------------------
\* the list the notebook passes as mod_types
modulation_types == <<"FM", "PM", "HYBRID">>
ModNames == {modulation_types[i] : i \in 1 .. Len(modulation_types)}
\* the lists of at most MaxMods of these names, in the order of the notebook's list
ModLists ==
    { ms \in DistinctSeqs(ModNames, MaxMods) :
        \A i, j \in 1 .. Len(ms) :
           i < j => \E a, b \in 1 .. Len(modulation_types) :
                       a < b /\ modulation_types[a] = ms[i] /\ modulation_types[b] = ms[j] }
A_H5 == <<"a", ".", "h", "5">>
B_H5 == <<"b", ".", "h", "5">>
A_TXT == <<"a", ".", "t", "x", "t">>
\* what os.listdir(mod_path) may return
Listings == {<<>>, <<A_TXT>>, <<A_H5>>, <<B_H5, A_TXT>>, <<A_H5, A_TXT, B_H5>>}
\* what a file may be: its keys in the order h5f.keys() yields them, whether
\* h5py.File raises on it, and the key (0: none) whose dataset cannot be read
FileCases ==
    { [keys |-> << <<"0">>, <<"1">> >>, opens |-> TRUE, bad |-> 0],
      [keys |-> << <<"0">>, <<"1">> >>, opens |-> FALSE, bad |-> 0],
      [keys |-> << <<"0">>, <<"1">> >>, opens |-> TRUE, bad |-> 2],
      [keys |-> << <<"0", "1">>, <<"1">> >>, opens |-> TRUE, bad |-> 0],
      [keys |-> << <<"0">>, <<"x">> >>, opens |-> TRUE, bad |-> 0],
      [keys |-> <<>>, opens |-> TRUE, bad |-> 0] }
\* np.array(h5f[key]) of the file `file` of directory `dir`
Spectrogram(dir, file, key) == [dir |-> dir, file |-> file, key |-> key]

LoadIdle ==
    /\ mod_types = <<>> /\ lpc = "idle" /\ mi = 0 /\ files = <<>> /\ fi = 0
    /\ mod_name = <<>> /\ keys = <<>> /\ ki = 0 /\ spectrogram_dict = <<>>
    /\ printed = <<>> /\ seen_dirs = <<>> /\ seen_files = <<>>

\* the call load_spectrogram_h5s(root_folder, mod_types)
LoadCall ==
    /\ mod_types \in ModLists
    /\ lpc = "entry" /\ mi = 0 /\ files = <<>> /\ fi = 0
    /\ mod_name = <<>> /\ keys = <<>> /\ ki = 0 /\ spectrogram_dict = <<>>
    /\ printed = <<>> /\ seen_dirs = <<>> /\ seen_files = <<>>

\* spectrogram_dict = {}
LoadEntry ==
    /\ LoadOnly
    /\ lpc = "entry"
    /\ spectrogram_dict' = <<>>
    /\ lpc' = "for_mod"
    /\ UNCHANGED <<mod_types, mi, files, fi, mod_name, keys, ki, printed,
                   seen_dirs, seen_files>>

\* for mod_type in mod_types: mod_path = os.path.join(root_folder, mod_type)
ForModType ==
    /\ LoadOnly
    /\ lpc = "for_mod"
    /\ IF mi < Len(mod_types)
       THEN mi' = mi + 1 /\ lpc' = "exists"
       ELSE mi' = mi /\ lpc' = "return"
    /\ UNCHANGED <<mod_types, files, fi, mod_name, keys, ki, spectrogram_dict,
                   printed, seen_dirs, seen_files>>

\* CheckExists with break in the place of continue
CheckExistsBreak ==
    /\ LoadOnly
    /\ lpc = "exists"
    /\ \E exists \in BOOLEAN :
          IF ~exists
          THEN /\ printed' = Append(printed, <<"warning", mod_types[mi]>>)
               /\ seen_dirs' = Append(seen_dirs,
                      [dir |-> mod_types[mi], exists |-> FALSE, listing |-> <<>>])
               /\ lpc' = "return"
          ELSE /\ printed' = Append(printed, <<"loading", mod_types[mi]>>)
               /\ seen_dirs' = Append(seen_dirs,
                      [dir |-> mod_types[mi], exists |-> TRUE, listing |-> <<>>])
               /\ lpc' = "listdir"
    /\ UNCHANGED <<mod_types, mi, files, fi, mod_name, keys, ki,
                   spectrogram_dict, seen_files>>

\* if not os.path.exists(mod_path): print(warning); continue
\* print("Loading from ...")
CheckExists ==
    /\ LoadOnly
    /\ lpc = "exists"
    /\ \E exists \in BOOLEAN :
          IF ~exists
          THEN /\ printed' = Append(printed, <<"warning", mod_types[mi]>>)
               /\ seen_dirs' = Append(seen_dirs,
                      [dir |-> mod_types[mi], exists |-> FALSE, listing |-> <<>>])
               /\ lpc' = "for_mod"
          ELSE /\ printed' = Append(printed, <<"loading", mod_types[mi]>>)
               /\ seen_dirs' = Append(seen_dirs,
                      [dir |-> mod_types[mi], exists |-> TRUE, listing |-> <<>>])
               /\ lpc' = "listdir"
    /\ UNCHANGED <<mod_types, mi, files, fi, mod_name, keys, ki,
                   spectrogram_dict, seen_files>>

\* files = [f for f in os.listdir(mod_path) if f.endswith(".h5")]
ListDir ==
    /\ LoadOnly
    /\ lpc = "listdir"
    /\ \E listing \in Listings :
          /\ files' = H5Files(listing)
          /\ seen_dirs' = [seen_dirs EXCEPT ![Len(seen_dirs)].listing = listing]
    /\ fi' = 0
    /\ lpc' = "for_file"
    /\ UNCHANGED <<mod_types, mi, mod_name, keys, ki, spectrogram_dict,
                   printed, seen_files>>

\* for file in tqdm(files): mod_name = file[:-3]; file_path = ...;
\* spectrogram_dict[mod_name] = {}
ForFile ==
    /\ LoadOnly
    /\ lpc = "for_file"
    /\ IF fi < Len(files)
       THEN /\ fi' = fi + 1
            /\ mod_name' = StripLast3(files[fi + 1])
            /\ spectrogram_dict' =
                  DictSet(spectrogram_dict, StripLast3(files[fi + 1]), <<>>)
            /\ lpc' = "open"
       ELSE /\ lpc' = "for_mod"
            /\ UNCHANGED <<fi, mod_name, spectrogram_dict>>
    /\ UNCHANGED <<mod_types, mi, files, keys, ki, printed, seen_dirs,
                   seen_files>>

\* OpenFile with the try around the loop over the files: a file that cannot
\* be opened ends the loop over the directory
OpenFileEndsLoop ==
    /\ LoadOnly
    /\ lpc = "open"
    /\ \E case \in FileCases :
          /\ seen_files' = Append(seen_files,
                 [dir |-> mod_types[mi], file |-> files[fi], keys |-> case.keys,
                  opens |-> case.opens, bad |-> case.bad])
          /\ IF case.opens
             THEN /\ keys' = case.keys
                  /\ ki' = 0
                  /\ lpc' = "for_key"
                  /\ printed' = printed
             ELSE /\ printed' = Append(printed, <<"failed", files[fi]>>)
                  /\ lpc' = "for_mod"
                  /\ UNCHANGED <<keys, ki>>
    /\ UNCHANGED <<mod_types, mi, files, fi, mod_name, spectrogram_dict,
                   seen_dirs>>

\* try: with h5py.File(file_path, "r") as h5f: ... h5f.keys()
\* except Exception as e: print("Failed to load ...")
OpenFile ==
    /\ LoadOnly
    /\ lpc = "open"
    /\ \E case \in FileCases :
          /\ seen_files' = Append(seen_files,
                 [dir |-> mod_types[mi], file |-> files[fi], keys |-> case.keys,
                  opens |-> case.opens, bad |-> case.bad])
          /\ IF case.opens
             THEN /\ keys' = case.keys
                  /\ ki' = 0
                  /\ lpc' = "for_key"
                  /\ printed' = printed
             ELSE /\ printed' = Append(printed, <<"failed", files[fi]>>)
                  /\ lpc' = "for_file"
                  /\ UNCHANGED <<keys, ki>>
    /\ UNCHANGED <<mod_types, mi, files, fi, mod_name, spectrogram_dict,
                   seen_dirs>>

\* for key in h5f.keys(): idx = int(key);
\*     spectrogram_dict[mod_name][idx] = np.array(h5f[key])
\* except Exception as e: print("Failed to load ...")
ForKey ==
    /\ LoadOnly
    /\ lpc = "for_key"
    /\ IF ki < Len(keys)
       THEN LET key == keys[ki + 1]
                cur == seen_files[Len(seen_files)]
            IN IF IsNumeral(key) /\ cur.bad # ki + 1
               THEN /\ spectrogram_dict' =
                         DictSet(spectrogram_dict, mod_name,
                            DictSet(DictGet(spectrogram_dict, mod_name), IntOf(key),
                               Spectrogram(mod_types[mi], files[fi], key)))
                    /\ ki' = ki + 1
                    /\ lpc' = "for_key"
                    /\ printed' = printed
               ELSE /\ printed' = Append(printed, <<"failed", files[fi]>>)
                    /\ lpc' = "for_file"
                    /\ UNCHANGED <<spectrogram_dict, ki>>
       ELSE /\ lpc' = "for_file"
            /\ UNCHANGED <<spectrogram_dict, ki, printed>>
    /\ UNCHANGED <<mod_types, mi, files, fi, mod_name, keys, seen_dirs,
                   seen_files>>

\* return spectrogram_dict
LoadReturn ==
    /\ LoadOnly
    /\ lpc = "return"
    /\ lpc' = "returned"
    /\ UNCHANGED <<mod_types, mi, files, fi, mod_name, keys, ki,
                   spectrogram_dict, printed, seen_dirs, seen_files>>

NextLoad ==
    \/ LoadEntry \/ ForModType \/ CheckExists \/ ListDir \/ ForFile
    \/ OpenFile \/ ForKey \/ LoadReturn

-----------------------------------------------------------------------------
(* convert_spectrogram_dict_to_xy                                          *)

MaxSamples == 2

ClassNames == {"bpsk", "lfm_up"}

\* the spectrogram stored under index idx of class label
Sample(label, idx) == [label |-> label, idx |-> idx]

\* an inner dict with its keys in the insertion order `order`
InnerDict(label, order) ==
    [j \in 1 .. Len(order) |-> <<order[j], Sample(label, order[j])>>]

IdxOrders == DistinctSeqs(0 .. MaxSamples, MaxSamples)

DataDicts ==
    UNION { { [i \in 1 .. Len(ls) |-> <<ls[i], InnerDict(ls[i], orders[i])>>] :
                orders \in [1 .. Len(ls) -> IdxOrders] } :
            ls \in DistinctSeqs(ClassNames, Cardinality(ClassNames)) }

\* sorted(s), by insertion
RECURSIVE Sorted(_)
Sorted(s) ==
    IF s = <<>> THEN <<>>
    ELSE LET rest == Sorted(Tail(s))
             below == {i \in 1 .. Len(rest) : rest[i] < s[1]}
             n == Cardinality(below)
         IN SubSeq(rest, 1, n) \o <<s[1]>> \o SubSeq(rest, n + 1, Len(rest))

ConvIdle ==
    /\ data_dict = <<>> /\ cpc = "idle" /\ li = 0 /\ sorted_idx = <<>> /\ si = 0
    /\ X_list = <<>> /\ y_list = <<>> /\ X_arr = <<>> /\ y_arr = <<>>

\* the call convert_spectrogram_dict_to_xy(data_dict)
ConvCall ==
    /\ data_dict \in DataDicts
    /\ cpc = "entry" /\ li = 0 /\ sorted_idx = <<>> /\ si = 0
    /\ X_list = <<>> /\ y_list = <<>> /\ X_arr = <<>> /\ y_arr = <<>>

\* X_list = []; y_list = []
ConvEntry ==
    /\ ConvOnly
    /\ cpc = "entry"
    /\ X_list' = <<>> /\ y_list' = <<>>
    /\ cpc' = "for_label"
    /\ UNCHANGED <<data_dict, li, sorted_idx, si, X_arr, y_arr>>

\* the keys in the order the dict holds them
IndexOrderUnsorted(spectros) == DictKeys(spectros)

\* the keys a class is walked through: sorted(spectros.keys())
IndexOrder(spectros) == Sorted(DictKeys(spectros))

\* for label, spectros in data_dict.items(): ... in sorted(spectros.keys())
ForLabel ==
    /\ ConvOnly
    /\ cpc = "for_label"
    /\ IF li < Len(data_dict)
       THEN /\ li' = li + 1
            /\ sorted_idx' = IndexOrder(data_dict[li + 1][2])
            /\ si' = 0
            /\ cpc' = "for_idx"
       ELSE /\ cpc' = "arrays"
            /\ UNCHANGED <<li, sorted_idx, si>>
    /\ UNCHANGED <<data_dict, X_list, y_list, X_arr, y_arr>>

\* for idx in sorted(...): X_list.append(spectros[idx]); y_list.append(label)
ForIdx ==
    /\ ConvOnly
    /\ cpc = "for_idx"
    /\ IF si < Len(sorted_idx)
       THEN /\ si' = si + 1
            /\ X_list' = Append(X_list, DictGet(data_dict[li][2], sorted_idx[si + 1]))
            /\ y_list' = Append(y_list, data_dict[li][1])
            /\ cpc' = "for_idx"
       ELSE /\ cpc' = "for_label"
            /\ UNCHANGED <<si, X_list, y_list>>
    /\ UNCHANGED <<data_dict, li, sorted_idx, X_arr, y_arr>>

\* X = np.array(X_list); y = np.array(y_list)
\* Spectrograms of different shapes make np.array raise ValueError.
MakeArrays ==
    /\ ConvOnly
    /\ cpc = "arrays"
    /\ \E ragged \in BOOLEAN :
          /\ ragged => Len(X_list) >= 2
          /\ IF ragged
             THEN cpc' = "raised" /\ UNCHANGED <<X_arr, y_arr>>
             ELSE X_arr' = X_list /\ y_arr' = y_list /\ cpc' = "return"
    /\ UNCHANGED <<data_dict, li, sorted_idx, si, X_list, y_list>>

\* return X, y
ConvReturn ==
    /\ ConvOnly
    /\ cpc = "return"
    /\ cpc' = "returned"
    /\ UNCHANGED <<data_dict, li, sorted_idx, si, X_list, y_list, X_arr, y_arr>>

NextConv == ConvEntry \/ ForLabel \/ ForIdx \/ MakeArrays \/ ConvReturn

-----------------------------------------------------------------------------
(* prepare_dataloader                                                      *)

MaxN == 2

ArgTypes == {"ndarray", "Tensor", "list"}

Axis(name, size) == [name |-> name, size |-> size]

\* the shapes X may have, for n samples; the axis names say what an axis
\* holds and are not seen by the code
Shapes(n) ==
    { <<Axis("N", n)>>,
      <<Axis("N", n), Axis("F", 3)>>,
      <<Axis("N", n), Axis("H", 2), Axis("W", 2)>>,
      <<Axis("N", n), Axis("H", 2), Axis("W", 3)>>,
      <<Axis("N", n), Axis("H", 2), Axis("W", 2), Axis("C", 1)>>,
      <<Axis("N", n), Axis("H", 2), Axis("W", 2), Axis("C", 2)>>,
      <<Axis("N", n), Axis("H", 2), Axis("W", 2), Axis("C", 3)>>,
      <<Axis("N", n), Axis("C", 3), Axis("H", 2), Axis("W", 2)>>,
      <<Axis("N", n), Axis("C", 3), Axis("H", 2), Axis("W", 3)>>,
      <<Axis("N", n), Axis("D", 2), Axis("H", 2), Axis("W", 2), Axis("C", 3)>> }

PrepIdle ==
    /\ X = [type |-> "ndarray", shape |-> <<>>]
    /\ y = [type |-> "ndarray", dtype |-> "int64", n |-> 0]
    /\ batch_size = 1 /\ ppc = "idle" /\ dataset = <<>> /\ loader = <<>>
    /\ error = "none"

\* the call prepare_dataloader(X, y, batch_size, shuffle, num_workers, device)
PrepCall ==
    /\ X \in { [type |-> t, shape |-> sh] :
                 t \in ArgTypes, sh \in UNION {Shapes(n) : n \in 0 .. MaxN} }
    /\ y \in [type : ArgTypes, dtype : {"int64", "str"}, n : 0 .. MaxN]
    /\ batch_size \in {1, 2}
    /\ ppc = "check_x" /\ dataset = <<>> /\ loader = <<>> /\ error = "none"

\* ConvertX without the elif branch
ConvertXUnchecked ==
    /\ PrepOnly
    /\ ppc = "check_x"
    /\ IF X.type = "ndarray"
       THEN X' = [X EXCEPT !.type = "Tensor"] /\ ppc' = "check_y" /\ error' = error
       ELSE X' = X /\ ppc' = "check_y" /\ error' = error
    /\ UNCHANGED <<y, batch_size, dataset, loader>>

\* if isinstance(X, np.ndarray): X = torch.tensor(X, dtype=torch.float32)
\* elif not isinstance(X, torch.Tensor): raise TypeError("Input X must be ...")
ConvertX ==
    /\ PrepOnly
    /\ ppc = "check_x"
    /\ IF X.type = "ndarray"
       THEN X' = [X EXCEPT !.type = "Tensor"] /\ ppc' = "check_y" /\ error' = error
       ELSE IF X.type # "Tensor"
       THEN X' = X /\ ppc' = "raised" /\ error' = "TypeError: Input X"
       ELSE X' = X /\ ppc' = "check_y" /\ error' = error
    /\ UNCHANGED <<y, batch_size, dataset, loader>>

\* if isinstance(y, np.ndarray): y = torch.tensor(y, dtype=torch.long)
\* elif not isinstance(y, torch.Tensor): raise TypeError("Labels y must be ...")
\* torch.tensor raises TypeError on an array of strings.
ConvertY ==
    /\ PrepOnly
    /\ ppc = "check_y"
    /\ IF y.type = "ndarray"
       THEN IF y.dtype = "str"
            THEN y' = y /\ ppc' = "raised" /\ error' = "TypeError: torch.tensor"
            ELSE y' = [y EXCEPT !.type = "Tensor"] /\ ppc' = "ndim" /\ error' = error
       ELSE IF y.type # "Tensor"
       THEN y' = y /\ ppc' = "raised" /\ error' = "TypeError: Labels y"
       ELSE y' = y /\ ppc' = "ndim" /\ error' = error
    /\ UNCHANGED <<X, batch_size, dataset, loader>>

\* X.unsqueeze(1)
Unsqueeze1(shape) == <<shape[1], Axis("C", 1)>> \o Tail(shape)
\* X.permute(0, 3, 1, 2)
Permute0312(shape) == <<shape[1], shape[4], shape[2], shape[3]>>

\* if X.ndim == 3: X = X.unsqueeze(1)
\* elif X.ndim == 4 and X.shape[-1] in [1, 3]: X = X.permute(0, 3, 1, 2)
FourDims(shape) ==
    IF Len(shape) = 3 THEN Unsqueeze1(shape)
    ELSE IF Len(shape) = 4 /\ shape[Len(shape)].size \in {1, 3} THEN Permute0312(shape)
    ELSE shape

EnsureFourDims ==
    /\ PrepOnly
    /\ ppc = "ndim"
    /\ X' = [X EXCEPT !.shape = FourDims(X.shape)]
    /\ ppc' = "dataset"
    /\ UNCHANGED <<y, batch_size, dataset, loader, error>>

\* X, y = X.to(device), y.to(device); dataset = TensorDataset(X, y)
\* TensorDataset asserts that its tensors have the same first dimension.
MakeDataset ==
    /\ PrepOnly
    /\ ppc = "dataset"
    /\ IF X.shape[1].size = y.n
       THEN dataset' = <<[X |-> X, y |-> y]>> /\ ppc' = "loader" /\ error' = error
       ELSE dataset' = dataset /\ ppc' = "raised" /\ error' = "AssertionError"
    /\ UNCHANGED <<X, y, batch_size, loader>>

\* loader = DataLoader(dataset, batch_size=batch_size, ...); return loader
MakeLoader ==
    /\ PrepOnly
    /\ ppc = "loader"
    /\ loader' = <<[dataset |-> dataset[1], batch_size |-> batch_size,
                     batches |-> (y.n + batch_size - 1) \div batch_size]>>
    /\ ppc' = "returned"
    /\ UNCHANGED <<X, y, batch_size, dataset, error>>

NextPrep == ConvertX \/ ConvertY \/ EnsureFourDims \/ MakeDataset \/ MakeLoader

-----------------------------------------------------------------------------
(* evaluate_model and display_confusion_matrix                             *)
(* The two functions share their first part: model.eval(), then under      *)
(* torch.no_grad() one forward pass and one argmax per batch, the labels   *)
(* and predictions being collected in two lists (y_true / y_pred in        *)
(* evaluate_model, all_labels / all_preds in display_confusion_matrix).    *)
(* Only evaluate_model keeps the counters correct and total.               *)

EvalFns == {"display_confusion_matrix", "evaluate_model"}
\* the class indices labels and predictions are drawn from
Classes == {0, 1}
MaxEvalSamples == 3
\* batch_size of the loader
EvalBatchSizes == {1, 2}

\* the sequences over S of length n
RECURSIVE SeqsOfLen(_, _)
SeqsOfLen(S, n) ==
    IF n = 0 THEN {<<>>}
    ELSE {Append(q[1], q[2]) : q \in SeqsOfLen(S, n - 1) \X S}

\* the batches a DataLoader of batch size b yields for the samples s: full
\* batches, the last one holding the rest
RECURSIVE Batches(_, _)
Batches(s, b) ==
    IF Len(s) = 0 THEN <<>>
    ELSE IF Len(s) <= b THEN <<s>>
    ELSE <<SubSeq(s, 1, b)>> \o Batches(SubSeq(s, b + 1, Len(s)), b)

\* the loaders: the labels of their batches
LoadersUpTo(n) ==
    {Batches(s, b) : s \in UNION {SeqsOfLen(Classes, k) : k \in 0 .. n},
                     b \in EvalBatchSizes}
Loaders == LoadersUpTo(MaxEvalSamples)

EvalIdle ==
    /\ efn = "none" /\ epc = "idle" /\ eloader = <<>> /\ ei = 0
    /\ labels = <<>> /\ preds = <<>> /\ correct = 0 /\ total = 0
    /\ y_true = <<>> /\ y_pred = <<>> /\ accuracy = <<>>
    /\ grad_enabled = TRUE /\ prev_grad = TRUE /\ fwd = <<>>

\* the call evaluate_model(model, test_loader, label_encoder, device) or
\* display_confusion_matrix(model, data_loader, device), before its first
\* statement; gradient tracking is in either mode
EvalCall ==
    /\ efn \in EvalFns /\ epc = "entry" /\ eloader \in Loaders /\ ei = 0
    /\ labels = <<>> /\ preds = <<>> /\ correct = 0 /\ total = 0
    /\ y_true = <<>> /\ y_pred = <<>> /\ accuracy = <<>>
    /\ grad_enabled \in BOOLEAN /\ prev_grad = TRUE /\ fwd = <<>>

\* a step of an evaluation function: of the model only the mode may change
EvalOnly ==
    UNCHANGED <<variant, epochs, patience, min_delta, scheduler, nb, tpc, epoch,
                batch, total_loss, loss_history, best_loss, patience_counter,
                grad, opt_steps, sched_steps, checkpoint, ops, epoch_items,
                trace, critVars, loadVars, convVars, prepVars, calls,
                otherVars>>

\* EvalEntry with model.eval() left out
EvalEntryNoEval ==
    /\ EvalOnly
    /\ epc = "entry"
    /\ training' = training
    /\ y_true' = <<>> /\ y_pred' = <<>> /\ correct' = 0 /\ total' = 0
    /\ epc' = "no_grad"
    /\ UNCHANGED <<efn, eloader, ei, labels, preds, accuracy, grad_enabled,
                   prev_grad, fwd>>

\* model.to(device); model.eval(); y_true = []; y_pred = []; correct = 0;
\* total = 0
EvalEntry ==
    /\ EvalOnly
    /\ epc = "entry"
    /\ training' = FALSE
    /\ y_true' = <<>> /\ y_pred' = <<>> /\ correct' = 0 /\ total' = 0
    /\ epc' = "no_grad"
    /\ UNCHANGED <<efn, eloader, ei, labels, preds, accuracy, grad_enabled,
                   prev_grad, fwd>>

\* with torch.no_grad():     (entering: the mode in force is remembered)
EnterNoGrad ==
    /\ EvalOnly
    /\ epc = "no_grad"
    /\ prev_grad' = grad_enabled
    /\ grad_enabled' = FALSE
    /\ epc' = "batch_head"
    /\ UNCHANGED <<training, efn, eloader, ei, labels, preds, correct, total,
                   y_true, y_pred, accuracy, fwd>>

\* for inputs, labels in test_loader: inputs.to(device); labels.to(device)
EvalBatchHead ==
    /\ EvalOnly
    /\ epc = "batch_head"
    /\ IF ei < Len(eloader)
       THEN /\ ei' = ei + 1
            /\ labels' = eloader[ei + 1]
            /\ epc' = "forward"
       ELSE /\ epc' = "exit_no_grad"
            /\ UNCHANGED <<ei, labels>>
    /\ UNCHANGED <<training, efn, eloader, preds, correct, total, y_true,
                   y_pred, accuracy, grad_enabled, prev_grad, fwd>>

\* output_class = model(inputs)
EvalForward ==
    /\ EvalOnly
    /\ epc = "forward"
    /\ fwd' = Append(fwd, [fn |-> efn, training |-> training, grad |-> grad_enabled])
    /\ epc' = "argmax"
    /\ UNCHANGED <<training, efn, eloader, ei, labels, preds, correct, total,
                   y_true, y_pred, accuracy, grad_enabled, prev_grad>>

\* preds = torch.argmax(output_class, dim=1): one class index per sample
Argmax ==
    /\ EvalOnly
    /\ epc = "argmax"
    /\ preds' \in SeqsOfLen(Classes, Len(labels))
    /\ epc' = IF efn = "evaluate_model" THEN "count" ELSE "extend"
    /\ UNCHANGED <<training, efn, eloader, ei, labels, correct, total, y_true,
                   y_pred, accuracy, grad_enabled, prev_grad, fwd>>

\* the number of positions at which p and l agree: (p == l).sum().item()
Agree(p, l) == Cardinality({i \in 1 .. Len(l) : p[i] = l[i]})

\* CountCorrect with total += 1 in the place of total += labels.size(0)
CountBatches ==
    /\ EvalOnly
    /\ epc = "count"
    /\ correct' = correct + Agree(preds, labels)
    /\ total' = total + 1
    /\ epc' = "extend"
    /\ UNCHANGED <<training, efn, eloader, ei, labels, preds, y_true, y_pred,
                   accuracy, grad_enabled, prev_grad, fwd>>

\* correct += (preds == labels).sum().item(); total += labels.size(0)
CountCorrect ==
    /\ EvalOnly
    /\ epc = "count"
    /\ correct' = correct + Agree(preds, labels)
    /\ total' = total + Len(labels)
    /\ epc' = "extend"
    /\ UNCHANGED <<training, efn, eloader, ei, labels, preds, y_true, y_pred,
                   accuracy, grad_enabled, prev_grad, fwd>>

\* y_true.extend(labels.cpu().tolist()); y_pred.extend(preds.cpu().tolist())
Extend ==
    /\ EvalOnly
    /\ epc = "extend"
    /\ y_true' = y_true \o labels
    /\ y_pred' = y_pred \o preds
    /\ epc' = "batch_head"
    /\ UNCHANGED <<training, efn, eloader, ei, labels, preds, correct, total,
                   accuracy, grad_enabled, prev_grad, fwd>>

\* leaving the with block: the remembered mode is put back
ExitNoGrad ==
    /\ EvalOnly
    /\ epc = "exit_no_grad"
    /\ grad_enabled' = prev_grad
    /\ epc' = IF efn = "evaluate_model" THEN "accuracy" ELSE "report"
    /\ UNCHANGED <<training, efn, eloader, ei, labels, preds, correct, total,
                   y_true, y_pred, accuracy, prev_grad, fwd>>

\* accuracy = 100 * correct / total; print(f"Accuracy: {accuracy:.2f}%")
\* Dividing by total = 0 raises ZeroDivisionError.
Accuracy ==
    /\ EvalOnly
    /\ epc = "accuracy"
    /\ IF total = 0
       THEN epc' = "raised" /\ accuracy' = accuracy
       ELSE epc' = "report" /\ accuracy' = <<Fin(100 * correct, total)>>
    /\ UNCHANGED <<training, efn, eloader, ei, labels, preds, correct, total,
                   y_true, y_pred, grad_enabled, prev_grad, fwd>>

\* cm = confusion_matrix(y_true, y_pred) ... plt.show();
\* print(classification_report(...)): the calls into sklearn and matplotlib
\* return or raise (on empty lists, on class names that do not match)
Report ==
    /\ EvalOnly
    /\ epc = "report"
    /\ epc' \in {"returned", "raised"}
    /\ UNCHANGED <<training, efn, eloader, ei, labels, preds, correct, total,
                   y_true, y_pred, accuracy, grad_enabled, prev_grad, fwd>>

NextEval ==
    \/ EvalEntry \/ EnterNoGrad \/ EvalBatchHead \/ EvalForward \/ Argmax
    \/ CountCorrect \/ Extend \/ ExitNoGrad \/ Accuracy \/ Report

-----------------------------------------------------------------------------
(* A session: train_model, display_confusion_matrix and evaluate_model      *)
(* called one after the other on the same model, in any order.  The locals *)
(* of a call that has ended are gone when the next call is made; the model *)
(* (its mode), the criterion and the grad mode of torch stay.              *)

MaxCalls == 3
\* epochs as the session passes it to train_model
SessionEpochs == {1, 2}
\* the loaders the session passes to the evaluation functions
SessionLoaders == LoadersUpTo(1)

\* no call is being executed
Quiescent ==
    /\ tpc \in {"idle", "returned", "raised"}
    /\ epc \in {"idle", "returned", "raised"}

\* train_model(model, train_loader, ..., scheduler=scheduler,
\* epochs=epoch_count, patience=50) on a loader of one batch
SessionCallTrain ==
    /\ Quiescent /\ Len(calls) < MaxCalls
    /\ calls' = Append(calls, "train_model")
    /\ epochs' \in SessionEpochs
    /\ patience' = 50 /\ min_delta' = 0 /\ scheduler' = TRUE /\ nb' = 1
    /\ tpc' = "entry" /\ epoch' = -1 /\ batch' = 0
    /\ total_loss' = Fin(0, 1) /\ loss_history' = <<>> /\ best_loss' = Inf
    /\ patience_counter' = 0 /\ grad' = "none"
    /\ opt_steps' = 0 /\ sched_steps' = 0 /\ checkpoint' = <<>> /\ ops' = <<>>
    /\ epoch_items' = <<>> /\ trace' = <<>>
    /\ efn' = "none" /\ epc' = "idle" /\ eloader' = <<>> /\ ei' = 0
    /\ labels' = <<>> /\ preds' = <<>> /\ correct' = 0 /\ total' = 0
    /\ y_true' = <<>> /\ y_pred' = <<>> /\ accuracy' = <<>>
    /\ prev_grad' = TRUE /\ fwd' = <<>>
    /\ UNCHANGED <<variant, training, grad_enabled, critVars, loadVars,
                   convVars, prepVars, otherVars>>

\* display_confusion_matrix(model, loader, device) or
\* evaluate_model(model, loader, label_encoder, device)
SessionCallEval ==
    /\ Quiescent /\ Len(calls) < MaxCalls
    /\ \E f \in EvalFns, l \in SessionLoaders :
          /\ efn' = f /\ eloader' = l
          /\ calls' = Append(calls, f)
    /\ epc' = "entry" /\ ei' = 0
    /\ labels' = <<>> /\ preds' = <<>> /\ correct' = 0 /\ total' = 0
    /\ y_true' = <<>> /\ y_pred' = <<>> /\ accuracy' = <<>>
    /\ prev_grad' = TRUE /\ fwd' = <<>>
    /\ epochs' = 0 /\ patience' = 0 /\ min_delta' = 0 /\ scheduler' = FALSE
    /\ nb' = 0 /\ tpc' = "idle" /\ epoch' = -1 /\ batch' = 0
    /\ total_loss' = Fin(0, 1) /\ loss_history' = <<>> /\ best_loss' = Inf
    /\ patience_counter' = 0 /\ grad' = "none"
    /\ opt_steps' = 0 /\ sched_steps' = 0 /\ checkpoint' = <<>> /\ ops' = <<>>
    /\ epoch_items' = <<>> /\ trace' = <<>>
    /\ UNCHANGED <<variant, training, grad_enabled, critVars, loadVars,
                   convVars, prepVars, otherVars>>

NextSession == SessionCallTrain \/ SessionCallEval \/ NextTrain \/ NextEval

-----------------------------------------------------------------------------
(* The notebooks, run top to bottom.  A code cell is kept as the line of   *)
(* its first statement, the call it makes ("def" / "import" for a cell of  *)
(* definitions, "" for a cell of plain statements), the names it binds and *)
(* the names it reads.  A run stops at the first cell that raises.         *)

Cell(line, call, defs, uses) ==
    [line |-> line, call |-> call, defs |-> defs, uses |-> uses]

\* STFT_CNN_Cells with the cell of torch.save moved to the end
STFT_CNN_CellsSaveLast ==
   <<
      Cell(30, "import", {}, {}),
      Cell(65, "", {"device"}, {}),
      Cell(82, "def", {"load_spectrogram_h5s"}, {}),
      Cell(136, "load_spectrogram_h5s", {"modulation_types", "data"}, {"load_spectrogram_h5s"}),
      Cell(169, "def", {"convert_spectrogram_dict_to_xy"}, {}),
      Cell(205, "convert_spectrogram_dict_to_xy", {"X", "y"}, {"convert_spectrogram_dict_to_xy", "data"}),
      Cell(214, "", {}, {"X", "y"}),
      Cell(231, "", {"label_encoder"}, {}),
      Cell(247, "def", {"prepare_dataloader"}, {}),
      Cell(294, "def", {"pre_processing"}, {}),
      Cell(326, "", {"y_encoded"}, {"label_encoder", "y"}),
      Cell(335, "pre_processing", {"X_pre_processed"}, {"pre_processing", "X"}),
      Cell(344, "train_test_split", {"X_train", "X_test", "y_train", "y_test"}, {"X_pre_processed", "y_encoded"}),
      Cell(355, "", {}, {"y_train", "y_test"}),
      Cell(381, "", {"selected_display"}, {}),
      Cell(390, "", {}, {"X_pre_processed", "y_encoded", "y", "selected_display"}),
      Cell(401, "", {}, {"X", "selected_display"}),
      Cell(411, "", {}, {"X_pre_processed", "selected_display"}),
      Cell(436, "def", {"train_model"}, {}),
      Cell(522, "def", {"plot_loss_curve"}, {}),
      Cell(548, "def", {"display_confusion_matrix"}, {}),
      Cell(648, "def", {"MainModel"}, {}),
      Cell(699, "MainModel", {"model"}, {"MainModel"}),
      Cell(717, "", {"train_loader"}, {"prepare_dataloader", "X_train", "y_train"}),
      Cell(731, "MainModel", {"model", "criterion"}, {"MainModel", "y_encoded", "device"}),
      Cell(746, "", {"optimizer", "scheduler"}, {"model"}),
      Cell(758, "train_model", {"loss_history"}, {"train_model", "model", "train_loader", "criterion", "optimizer", "scheduler", "device"}),
      Cell(777, "plot_loss_curve", {}, {"plot_loss_curve", "loss_history"}),
      Cell(786, "display_confusion_matrix", {}, {"display_confusion_matrix", "model", "train_loader", "device"}),
      Cell(802, "", {"model_file_name"}, {"modulation_types"}),
      Cell(831, "def", {"evaluate_model"}, {}),
      Cell(907, "", {"test_loader"}, {"prepare_dataloader", "X_test", "y_test"}),
      Cell(921, "evaluate_model", {}, {"evaluate_model", "model", "test_loader", "label_encoder", "device"}),
      Cell(815, "torch.save", {}, {"model", "model_file_name"})
   >>

\* the code cells of STFT-CNN.ipynb
STFT_CNN_Cells ==
   <<
      Cell(30, "import", {}, {}),
      Cell(65, "", {"device"}, {}),
      Cell(82, "def", {"load_spectrogram_h5s"}, {}),
      Cell(136, "load_spectrogram_h5s", {"modulation_types", "data"}, {"load_spectrogram_h5s"}),
      Cell(169, "def", {"convert_spectrogram_dict_to_xy"}, {}),
      Cell(205, "convert_spectrogram_dict_to_xy", {"X", "y"}, {"convert_spectrogram_dict_to_xy", "data"}),
      Cell(214, "", {}, {"X", "y"}),
      Cell(231, "", {"label_encoder"}, {}),
      Cell(247, "def", {"prepare_dataloader"}, {}),
      Cell(294, "def", {"pre_processing"}, {}),
      Cell(326, "", {"y_encoded"}, {"label_encoder", "y"}),
      Cell(335, "pre_processing", {"X_pre_processed"}, {"pre_processing", "X"}),
      Cell(344, "train_test_split", {"X_train", "X_test", "y_train", "y_test"}, {"X_pre_processed", "y_encoded"}),
      Cell(355, "", {}, {"y_train", "y_test"}),
      Cell(381, "", {"selected_display"}, {}),
      Cell(390, "", {}, {"X_pre_processed", "y_encoded", "y", "selected_display"}),
      Cell(401, "", {}, {"X", "selected_display"}),
      Cell(411, "", {}, {"X_pre_processed", "selected_display"}),
      Cell(436, "def", {"train_model"}, {}),
      Cell(522, "def", {"plot_loss_curve"}, {}),
      Cell(548, "def", {"display_confusion_matrix"}, {}),
      Cell(648, "def", {"MainModel"}, {}),
      Cell(699, "MainModel", {"model"}, {"MainModel"}),
      Cell(717, "", {"train_loader"}, {"prepare_dataloader", "X_train", "y_train"}),
      Cell(731, "MainModel", {"model", "criterion"}, {"MainModel", "y_encoded", "device"}),
      Cell(746, "", {"optimizer", "scheduler"}, {"model"}),
      Cell(758, "train_model", {"loss_history"}, {"train_model", "model", "train_loader", "criterion", "optimizer", "scheduler", "device"}),
      Cell(777, "plot_loss_curve", {}, {"plot_loss_curve", "loss_history"}),
      Cell(786, "display_confusion_matrix", {}, {"display_confusion_matrix", "model", "train_loader", "device"}),
      Cell(802, "", {"model_file_name"}, {"modulation_types"}),
      Cell(815, "torch.save", {}, {"model", "model_file_name"}),
      Cell(831, "def", {"evaluate_model"}, {}),
      Cell(907, "", {"test_loader"}, {"prepare_dataloader", "X_test", "y_test"}),
      Cell(921, "evaluate_model", {}, {"evaluate_model", "model", "test_loader", "label_encoder", "device"})
   >>

\* the code cells of the LDC-Unet notebook of LDC-Unet.ipynb
LDC_Unet_Cells ==
   <<
      Cell(30, "import", {}, {}),
      Cell(70, "", {"device"}, {}),
      Cell(87, "def", {"pre_processing"}, {}),
      Cell(102, "def", {"load_spectrogram_h5s"}, {}),
      Cell(157, "load_spectrogram_h5s", {"modulation_types", "data"}, {"load_spectrogram_h5s"}),
      Cell(183, "def", {"convert_spectrogram_dict_to_xy"}, {}),
      Cell(219, "convert_spectrogram_dict_to_xy", {"X", "y"}, {"convert_spectrogram_dict_to_xy", "data"}),
      Cell(228, "", {}, {"X", "y"}),
      Cell(245, "", {"label_encoder"}, {}),
      Cell(261, "def", {"prepare_dataloader"}, {}),
      Cell(308, "", {"y_encoded"}, {"label_encoder", "y"}),
      Cell(317, "pre_processing", {"X_pre_processed"}, {"pre_processing", "X"}),
      Cell(326, "train_test_split", {"X_train", "X_test", "y_train", "y_test"}, {"X_pre_processed", "y_encoded"}),
      Cell(337, "", {}, {"y_train", "y_test"}),
      Cell(363, "", {"selected_display"}, {}),
      Cell(372, "", {}, {"X_pre_processed", "y_encoded", "y", "selected_display"}),
      Cell(383, "", {}, {"X", "selected_display"}),
      Cell(394, "", {}, {"X_pre_processed", "selected_display"}),
      Cell(419, "def", {"SSRLoss"}, {}),
      Cell(454, "def", {"train_model"}, {}),
      Cell(558, "def", {"plot_loss_curve"}, {}),
      Cell(584, "def", {"display_confusion_matrix"}, {}),
      Cell(684, "def", {"encoder"}, {}),
      Cell(722, "def", {"decoder"}, {}),
      Cell(772, "def", {"decoder_4"}, {}),
      Cell(815, "def", {"LDC_Unet"}, {}),
      Cell(872, "def", {"DCNN"}, {}),
      Cell(923, "def", {"MainModel"}, {}),
      Cell(972, "", {"train_loader"}, {"prepare_dataloader", "X_train", "y_train"}),
      Cell(986, "MainModel", {"model", "criterion"}, {"MainModel", "LDC_Unet", "encoder", "decoder", "decoder_4", "DCNN", "SSRLoss", "y_encoded", "device"}),
      Cell(1001, "", {"optimizer", "scheduler"}, {"model"}),
      Cell(1013, "train_model", {"loss_history"}, {"train_model", "model", "train_loader", "criterion", "optimizer", "scheduler", "device"}),
      Cell(1032, "plot_loss_curve", {}, {"plot_loss_curve", "loss_history"}),
      Cell(1041, "display_confusion_matrix", {}, {"display_confusion_matrix", "model", "train_loader", "device"}),
      Cell(1057, "", {"model_file_name"}, {"modulation_types"}),
      Cell(1070, "torch.save", {}, {"model", "model_file_name"}),
      Cell(1086, "def", {"evaluate_model"}, {}),
      Cell(1172, "", {"test_loader"}, {"prepare_dataloader", "X_test", "y_test"}),
      Cell(1186, "evaluate_model", {}, {"evaluate_model", "model", "test_loader", "label_encoder", "device"})
   >>

\* the code cells of the LPI-Net notebook of LDC-Unet.ipynb
LPI_Net_Cells ==
   <<
      Cell(1242, "import", {}, {}),
      Cell(1278, "", {"device"}, {}),
      Cell(1295, "def", {"load_spectrogram_h5s"}, {}),
      Cell(1350, "load_spectrogram_h5s", {"modulation_types", "data"}, {"load_spectrogram_h5s"}),
      Cell(1376, "def", {"convert_spectrogram_dict_to_xy"}, {}),
      Cell(1412, "convert_spectrogram_dict_to_xy", {"X", "y"}, {"convert_spectrogram_dict_to_xy", "data"}),
      Cell(1421, "", {}, {"X", "y"}),
      Cell(1438, "", {"label_encoder"}, {}),
      Cell(1454, "def", {"prepare_dataloader"}, {}),
      Cell(1501, "def", {"pre_processing"}, {}),
      Cell(1520, "", {"y_encoded"}, {"label_encoder", "y"}),
      Cell(1529, "pre_processing", {"X_pre_processed"}, {"pre_processing", "X"}),
      Cell(1538, "train_test_split", {"X_train", "X_test", "y_train", "y_test"}, {"X_pre_processed", "y_encoded"}),
      Cell(1549, "", {}, {"y_train", "y_test"}),
      Cell(1575, "", {"selected_display"}, {}),
      Cell(1584, "", {}, {"X_pre_processed", "y_encoded", "y", "selected_display"}),
      Cell(1595, "", {}, {"X", "selected_display"}),
      Cell(1605, "", {}, {"X_pre_processed", "selected_display"}),
      Cell(1630, "def", {"train_model"}, {}),
      Cell(1715, "def", {"plot_loss_curve"}, {}),
      Cell(1741, "def", {"display_confusion_matrix"}, {}),
      Cell(1798, "def", {"module_thing"}, {}),
      Cell(1850, "def", {"MainModel"}, {}),
      Cell(1904, "MainModel", {"model"}, {"MainModel", "module_thing"}),
      Cell(1922, "", {"train_loader"}, {"prepare_dataloader", "X_train", "y_train"}),
      Cell(1936, "MainModel", {"model", "criterion"}, {"MainModel", "module_thing", "y_encoded", "device"}),
      Cell(1951, "", {"optimizer", "scheduler"}, {"model"}),
      Cell(1965, "train_model", {"loss_history"}, {"train_model", "model", "train_loader", "criterion", "optimizer", "scheduler", "device"}),
      Cell(1984, "plot_loss_curve", {}, {"plot_loss_curve", "loss_history"}),
      Cell(1993, "display_confusion_matrix", {}, {"display_confusion_matrix", "model", "train_loader", "device", "y_train"}),
      Cell(2009, "", {"model_file_name"}, {"modulation_types"}),
      Cell(2022, "torch.save", {}, {"model", "model_file_name"}),
      Cell(2038, "def", {"evaluate_model"}, {}),
      Cell(2126, "", {"test_loader"}, {"prepare_dataloader", "X_test", "y_test"}),
      Cell(2140, "evaluate_model", {}, {"evaluate_model", "model", "test_loader", "label_encoder", "device"})
   >>

Cells(v) ==
    CASE v = "STFT_CNN" -> STFT_CNN_Cells
      [] v = "LDC_Unet" -> LDC_Unet_Cells
      [] OTHER -> LPI_Net_Cells

NotebookIdle ==
    /\ ncell = 0 /\ defined = {} /\ stages = <<>> /\ disk = {} /\ halted = ""

\* a step of the notebook run
NotebookOnly ==
    UNCHANGED <<trainVars, critVars, loadVars, convVars, prepVars, evalVars, calls,
                ssrVars, preVars, modelVars, unetVars>>

\* the cell to run next
NextCell == Cells(variant)[ncell + 1]
Running == halted = "" /\ ncell < Len(Cells(variant))

\* a cell of imports or of one def / class statement
RunDefinitions ==
    /\ NotebookOnly
    /\ Running /\ NextCell.call \in {"import", "def"}
    /\ defined' = defined \cup NextCell.defs
    /\ ncell' = ncell + 1
    /\ UNCHANGED <<stages, disk, halted>>

\* a cell of assignments, prints and plots: it runs to its end or raises; a
\* name that is not bound raises NameError
RunStatements ==
    /\ NotebookOnly
    /\ Running /\ NextCell.call = ""
    /\ IF ~(NextCell.uses \subseteq defined)
       THEN halted' = "NameError" /\ UNCHANGED <<defined, ncell>>
       ELSE \/ /\ defined' = defined \cup NextCell.defs
               /\ ncell' = ncell + 1
               /\ halted' = halted
            \/ halted' = "Exception" /\ UNCHANGED <<defined, ncell>>
    /\ UNCHANGED <<stages, disk>>

\* a cell that calls one of the functions of the pipeline: the call is made,
\* and returns or raises
RunCall ==
    /\ NotebookOnly
    /\ Running /\ NextCell.call \notin {"import", "def", "", "torch.save"}
    /\ IF ~(NextCell.uses \subseteq defined)
       THEN halted' = "NameError" /\ UNCHANGED <<defined, ncell, stages>>
       ELSE /\ stages' = Append(stages, NextCell.call)
            /\ \/ /\ defined' = defined \cup NextCell.defs
                  /\ ncell' = ncell + 1
                  /\ halted' = halted
               \/ halted' = "Exception" /\ UNCHANGED <<defined, ncell>>
    /\ disk' = disk

\* torch.save(model, model_file_name + ".pth")
RunSave ==
    /\ NotebookOnly
    /\ Running /\ NextCell.call = "torch.save"
    /\ IF ~(NextCell.uses \subseteq defined)
       THEN halted' = "NameError" /\ UNCHANGED <<defined, ncell, stages, disk>>
       ELSE /\ stages' = Append(stages, "torch.save")
            /\ defined' = defined
            /\ \/ /\ disk' = disk \cup {"model_file_name.pth"}
                  /\ ncell' = ncell + 1
                  /\ halted' = halted
               \/ halted' = "Exception" /\ UNCHANGED <<disk, ncell>>

NextNotebook == RunDefinitions \/ RunStatements \/ RunCall \/ RunSave

-----------------------------------------------------------------------------
(* SSRLoss.forward(features, labels, logits)                               *)
(* A tensor of features or of centers is a sequence of rows of integers;   *)
(* labels index the classes from 0.  The logits of a sample are kept as    *)
(* the value -log_softmax gives to each class, which is all that           *)
(* nn.CrossEntropyLoss reads from them.                                    *)

MaxSSRBatch == 2
FeatureDims == {1, 2}
NumClasses == Cardinality(Classes)
FeatureValues == {0, 1}
\* -log_softmax(logits[i]) per class
LogitRows == {<<Fin(0, 1), Fin(1, 1)>>, <<Fin(1, 1), Fin(0, 1)>>}
\* lambda_reg: the notebook passes 0.12
Lambdas == {Fin(-1, 1), Fin(3, 25)}
\* the labels a caller may pass: the classes and one label past the last class
LabelValues == Classes \cup {NumClasses}

\* a * b for operands that are finite or NaN
FMul(a, b) ==
    IF a.k = "nan" \/ b.k = "nan" THEN NaN
    ELSE Fin(a.num * b.num, a.den * b.den)

AbsInt(x) == IF x < 0 THEN -x ELSE x

RECURSIVE SumInts(_)
SumInts(s) == IF s = <<>> THEN 0 ELSE SumInts(SubSeq(s, 1, Len(s) - 1)) + s[Len(s)]

\* torch.mean of a tensor given by the sum of its n elements
Mean(sum, n) == IF n = 0 THEN NaN ELSE Fin(sum, n)

\* nn.CrossEntropyLoss()(logits, labels), reduction 'mean'
cross_entropy(lg, lb) ==
    IF lb = <<>> THEN NaN
    ELSE FDivInt(FSum([i \in 1 .. Len(lb) |-> lg[i][lb[i] + 1]]), Len(lb))

SSRIdle ==
    /\ spc = "idle" /\ features = <<>> /\ ssr_labels = <<>> /\ logits = <<>>
    /\ self_centers = <<>> /\ lambda_reg = Fin(0, 1)
    /\ loss_softmax = NaN /\ centers_batch = <<>> /\ loss_reg = NaN /\ loss = NaN

\* criterion(features, labels, logits) on a batch of b samples, the criterion
\* built as SSRLoss(num_classes, feature_dim, lambda_reg)
SSRCall ==
    \E b \in 0 .. MaxSSRBatch, d \in FeatureDims :
       /\ features \in SeqsOfLen(SeqsOfLen(FeatureValues, d), b)
       /\ ssr_labels \in SeqsOfLen(LabelValues, b)
       /\ logits \in SeqsOfLen(LogitRows, b)
       /\ self_centers \in SeqsOfLen(SeqsOfLen(FeatureValues, d), NumClasses)
       /\ lambda_reg \in Lambdas
       /\ spc = "cross_entropy"
       /\ loss_softmax = NaN /\ centers_batch = <<>> /\ loss_reg = NaN /\ loss = NaN

SSROnly ==
    UNCHANGED <<trainVars, critVars, loadVars, convVars, prepVars, evalVars, calls,
                nbVars, preVars, modelVars, unetVars, features, ssr_labels, logits,
                self_centers, lambda_reg>>

\* loss_softmax = self.cross_entropy(logits, labels); a label that is not a
\* class raises
SoftmaxLoss ==
    /\ SSROnly
    /\ spc = "cross_entropy"
    /\ IF \E i \in 1 .. Len(ssr_labels) : ssr_labels[i] \notin Classes
       THEN spc' = "raised" /\ UNCHANGED loss_softmax
       ELSE /\ loss_softmax' = cross_entropy(logits, ssr_labels)
            /\ spc' = "centers"
    /\ UNCHANGED <<centers_batch, loss_reg, loss>>

\* centers_batch = self.centers[labels]
CentersBatchRowZero ==
    /\ SSROnly
    /\ spc = "centers"
    /\ centers_batch' = [i \in 1 .. Len(ssr_labels) |-> self_centers[1]]
    /\ spc' = "reg"
    /\ UNCHANGED <<loss_softmax, loss_reg, loss>>

CentersBatch ==
    /\ SSROnly
    /\ spc = "centers"
    /\ centers_batch' = [i \in 1 .. Len(ssr_labels) |-> self_centers[ssr_labels[i] + 1]]
    /\ spc' = "reg"
    /\ UNCHANGED <<loss_softmax, loss_reg, loss>>

\* loss_reg = torch.mean(torch.abs(features - centers_batch))
LossReg ==
    /\ SSROnly
    /\ spc = "reg"
    /\ LET dim == IF features = <<>> THEN 0 ELSE Len(features[1])
           rows == [i \in 1 .. Len(features) |->
                      SumInts([j \in 1 .. dim |->
                                  AbsInt(features[i][j] - centers_batch[i][j])])]
       IN loss_reg' = Mean(SumInts(rows), Len(features) * dim)
    /\ spc' = "sum"
    /\ UNCHANGED <<loss_softmax, centers_batch, loss>>

\* loss = loss_softmax + self.lambda_reg * loss_reg; return loss
SSRReturn ==
    /\ SSROnly
    /\ spc = "sum"
    /\ loss' = FAdd(loss_softmax, FMul(lambda_reg, loss_reg))
    /\ spc' = "done"
    /\ UNCHANGED <<loss_softmax, centers_batch, loss_reg>>

NextSSR == SoftmaxLoss \/ CentersBatch \/ LossReg \/ SSRReturn

-----------------------------------------------------------------------------
(* pre_processing(images)  (STFT-CNN)                                      *)
(* An image is kept as its place in the input, its spatial size, and what  *)
(* the steps of the function depend on: whether its entries are all equal  *)
(* ("constant"), differ ("varied") or hold a NaN ("nan"), and whether some *)
(* entry is below zero.                                                    *)

MaxImages == 2
iterations == 6
target_size == <<40, 40>>
ImageSizes == {<<0, 0>>, <<40, 40>>, <<224, 224>>}
ImageKinds == {"constant", "varied", "nan"}

Image(i, size, kind, negative) ==
    [id |-> i, size |-> size, kind |-> kind, negative |-> negative]
NoImage == Image(0, <<0, 0>>, "constant", FALSE)

ImagesOfLen(n) ==
    {s \in SeqsOfLen([size : ImageSizes, kind : ImageKinds, negative : BOOLEAN], n) :
        \A i \in 1 .. n : s[i].kind = "nan" => ~s[i].negative}

PreIdle ==
    /\ qpc = "idle" /\ images = <<>> /\ image_index = 0 /\ iteration = 0
    /\ resized_image = NoImage /\ processed_image = NoImage
    /\ processed_images = <<>> /\ returned = <<>>

\* the call pre_processing(images)
PreCall ==
    /\ \E n \in 0 .. MaxImages : \E s \in ImagesOfLen(n) :
          images = [i \in 1 .. n |-> Image(i, s[i].size, s[i].kind, s[i].negative)]
    /\ qpc = "entry" /\ image_index = 0 /\ iteration = 0
    /\ resized_image = NoImage /\ processed_image = NoImage
    /\ processed_images = <<>> /\ returned = <<>>

PreOnly ==
    UNCHANGED <<trainVars, critVars, loadVars, convVars, prepVars, evalVars, calls,
                nbVars, ssrVars, modelVars, unetVars, images>>

\* iterations = 6; processed_images = []; target_size = (40, 40)
PreEntry ==
    /\ PreOnly
    /\ qpc = "entry"
    /\ processed_images' = <<>>
    /\ qpc' = "for"
    /\ UNCHANGED <<image_index, iteration, resized_image, processed_image, returned>>

\* for image in images:   and, after the last image,
\* return np.array(processed_images, dtype=np.float32)
ImageHead ==
    /\ PreOnly
    /\ qpc = "for"
    /\ IF image_index < Len(images)
       THEN /\ image_index' = image_index + 1
            /\ qpc' = "resize"
            /\ returned' = returned
       ELSE /\ returned' = processed_images
            /\ qpc' = "done"
            /\ image_index' = image_index
    /\ UNCHANGED <<iteration, resized_image, processed_image, processed_images>>

\* resized_image = cv2.resize(image, target_size, interpolation=cv2.INTER_AREA)
\* an image without pixels raises; averaging the pixels of a larger image may
\* leave all entries equal
Resize ==
    /\ PreOnly
    /\ qpc = "resize"
    /\ LET image == images[image_index]
       IN IF image.size[1] = 0 \/ image.size[2] = 0
          THEN qpc' = "raised" /\ UNCHANGED resized_image
          ELSE /\ qpc' = "astype"
               /\ \E k \in {image.kind} \cup
                           (IF image.kind = "varied" /\ image.size # target_size
                            THEN {"constant"} ELSE {}) :
                     resized_image' = Image(image.id, target_size, k, image.negative)
    /\ UNCHANGED <<image_index, iteration, processed_image, processed_images, returned>>

\* processed_image = resized_image.astype(np.float32)
AsType ==
    /\ PreOnly
    /\ qpc = "astype"
    /\ processed_image' = resized_image
    /\ iteration' = 0
    /\ qpc' = "range"
    /\ UNCHANGED <<image_index, resized_image, processed_images, returned>>

\* for _ in range(iterations): mean = np.mean(..); std = np.var(..);
\*     processed_image = (processed_image - mean) / std
\* equal entries give 0/0 = NaN everywhere, a NaN gives NaN everywhere, and
\* entries that differ are left on both sides of zero
Normalize ==
    /\ PreOnly
    /\ qpc = "range" /\ iteration < iterations
    /\ processed_image' =
          IF processed_image.kind = "varied"
          THEN [processed_image EXCEPT !.negative = TRUE]
          ELSE [processed_image EXCEPT !.kind = "nan", !.negative = FALSE]
    /\ iteration' = iteration + 1
    /\ UNCHANGED <<qpc, image_index, resized_image, processed_images, returned>>

\* processed_image[processed_image < 0] = 0
ClampNothing ==
    /\ PreOnly
    /\ qpc = "range" /\ iteration = iterations
    /\ qpc' = "append"
    /\ UNCHANGED <<processed_image, image_index, iteration, resized_image,
                   processed_images, returned>>

Clamp ==
    /\ PreOnly
    /\ qpc = "range" /\ iteration = iterations
    /\ processed_image' = [processed_image EXCEPT !.negative = FALSE]
    /\ qpc' = "append"
    /\ UNCHANGED <<image_index, iteration, resized_image, processed_images, returned>>

\* processed_images.append(processed_image)
AppendImage ==
    /\ PreOnly
    /\ qpc = "append"
    /\ processed_images' = Append(processed_images, processed_image)
    /\ qpc' = "for"
    /\ UNCHANGED <<image_index, iteration, resized_image, processed_image, returned>>

NextPre ==
    PreEntry \/ ImageHead \/ Resize \/ AsType \/ Normalize \/ Clamp \/ AppendImage

-----------------------------------------------------------------------------
(* MainModel(num_classes).forward(x)  (STFT-CNN)                           *)
(* x is kept as its shape without the batch dimension: <<C, H, W>>, or     *)
(* <<F>> once flattened.                                                   *)

conv1 == [in_channels |-> 3, out_channels |-> 6, kernel_size |-> 5, stride |-> 1]
pool1 == [kernel_size |-> 2, stride |-> 2]
conv2 == [in_channels |-> 6, out_channels |-> 12, kernel_size |-> 5, stride |-> 1]
pool2 == [kernel_size |-> 2, stride |-> 2]
fc_in_features == 588

NumClassesArgs == {6}
InputChannels == {1, 3}
InputSides == {4, 40, 224}

\* the output length of a window of size k moved by stride s over n entries
OutSize(n, k, s) == ((n - k) \div s) + 1

\* nn.Conv2d without padding: "raised" when the channels do not match or the
\* kernel is larger than the input
Conv2d(layer, s) ==
    IF Len(s) # 3 \/ s[1] # layer.in_channels
          \/ s[2] < layer.kernel_size \/ s[3] < layer.kernel_size
    THEN "raised"
    ELSE <<layer.out_channels, OutSize(s[2], layer.kernel_size, layer.stride),
           OutSize(s[3], layer.kernel_size, layer.stride)>>

\* nn.AvgPool2d: "raised" when the output would be empty
AvgPool2d(layer, s) ==
    IF Len(s) # 3 \/ s[2] < layer.kernel_size \/ s[3] < layer.kernel_size
    THEN "raised"
    ELSE <<s[1], OutSize(s[2], layer.kernel_size, layer.stride),
           OutSize(s[3], layer.kernel_size, layer.stride)>>

\* nn.Flatten over a sample
Flat(s) == <<s[1] * s[2] * s[3]>>

\* nn.Linear: "raised" when the input has not in_features entries
Linear(in_features, out_features, s) ==
    IF s[Len(s)] # in_features THEN "raised" ELSE <<out_features>>

ModelIdle ==
    /\ mpc = "idle" /\ num_classes = 0 /\ input_shape = <<>> /\ x_shape = <<>>
    /\ layer_shapes = <<>>

ModelOnly ==
    UNCHANGED <<trainVars, critVars, loadVars, convVars, prepVars, evalVars, calls,
                nbVars, ssrVars, preVars, unetVars>>

\* model = MainModel(num_classes); model(x), once the images are pre-processed
ModelCall ==
    /\ ModelOnly
    /\ qpc = "done" /\ mpc = "idle"
    /\ num_classes' \in NumClassesArgs
    /\ \E c \in InputChannels, h \in InputSides, w \in InputSides :
          input_shape' = <<c, h, w>> /\ x_shape' = <<c, h, w>>
    /\ mpc' = "conv1" /\ layer_shapes' = <<>>

\* x = layer(x), continuing at `next` unless the layer raises
Apply(out, next) ==
    IF out = "raised"
    THEN mpc' = "raised" /\ UNCHANGED <<num_classes, input_shape, x_shape, layer_shapes>>
    ELSE /\ UNCHANGED <<num_classes, input_shape>>
         /\ x_shape' = out
         /\ layer_shapes' = Append(layer_shapes, out)
         /\ mpc' = next

\* x = self.conv1(x)
Conv1 == ModelOnly /\ mpc = "conv1" /\ Apply(Conv2d(conv1, x_shape), "relu1")
\* x = self.relu(x), both times
Relu ==
    /\ ModelOnly
    /\ mpc \in {"relu1", "relu2"}
    /\ mpc' = IF mpc = "relu1" THEN "pool1" ELSE "pool2"
    /\ UNCHANGED <<num_classes, input_shape, x_shape, layer_shapes>>
\* x = self.pool1(x)
Pool1 == ModelOnly /\ mpc = "pool1" /\ Apply(AvgPool2d(pool1, x_shape), "conv2")
\* x = self.conv2(x)
Conv2 == ModelOnly /\ mpc = "conv2" /\ Apply(Conv2d(conv2, x_shape), "relu2")
\* x = self.pool2(x)
Pool2 == ModelOnly /\ mpc = "pool2" /\ Apply(AvgPool2d(pool2, x_shape), "flat")
\* x = self.flat(x)
FlattenX == ModelOnly /\ mpc = "flat" /\ Apply(Flat(x_shape), "fc")
\* x = self.fc(x); return x
Fc ==
    ModelOnly /\ mpc = "fc" /\ Apply(Linear(fc_in_features, num_classes, x_shape), "done")

NextModel == ModelCall \/ Conv1 \/ Relu \/ Pool1 \/ Conv2 \/ Pool2 \/ FlattenX \/ Fc

NextShape == NextPre \/ NextModel

-----------------------------------------------------------------------------
(* LDC_Unet().forward(x)  (LDC-Unet)                                       *)
(* A tensor is kept as its shape <<N, C, H, W>>.  `tensors` holds the      *)
(* locals of LDC_Unet.forward by name, `frame` the locals of the encoder   *)
(* or decoder being run.                                                   *)

MaxSideUnits == 4
\* heights and widths of the inputs: multiples of 16, so some are multiples
\* of 32 and some are not
UnetSides == {16 * k : k \in 1 .. MaxSideUnits}
UnetBatchSizes == {1, 2}
UnetChannels == {1, 3}

\* self.e1 .. self.e5
EncoderModules ==
    [e1 |-> [in_channels |-> 3, out_channels |-> 64],
     e2 |-> [in_channels |-> 64, out_channels |-> 128],
     e3 |-> [in_channels |-> 128, out_channels |-> 256],
     e4 |-> [in_channels |-> 256, out_channels |-> 256],
     e5 |-> [in_channels |-> 256, out_channels |-> 512]]

\* self.d4 .. self.d1 (d4 is a decoder_4 and has no c4)
DecoderModulesWideD3 ==
    [d4 |-> [c1 |-> 256, c2 |-> 256, c3 |-> 512, c4 |-> 0],
     d3 |-> [c1 |-> 128, c2 |-> 256, c3 |-> 256, c4 |-> 256],
     d2 |-> [c1 |-> 64, c2 |-> 128, c3 |-> 256, c4 |-> 256],
     d1 |-> [c1 |-> 3, c2 |-> 64, c3 |-> 128, c4 |-> 256]]

DecoderModules ==
    [d4 |-> [c1 |-> 256, c2 |-> 256, c3 |-> 512, c4 |-> 0],
     d3 |-> [c1 |-> 128, c2 |-> 256, c3 |-> 256, c4 |-> 192],
     d2 |-> [c1 |-> 64, c2 |-> 128, c3 |-> 256, c4 |-> 256],
     d1 |-> [c1 |-> 3, c2 |-> 64, c3 |-> 128, c4 |-> 256]]

\* the statements of LDC_Unet.forward that call a module: the module, its
\* arguments, the local that takes the result, and the statement that follows
UnetCalls ==
    [e1 |-> [args |-> <<"x0">>, result |-> "x_e1", next |-> "e2"],
     e2 |-> [args |-> <<"x_e1">>, result |-> "x_e2", next |-> "e3"],
     e3 |-> [args |-> <<"x_e2">>, result |-> "x_e3", next |-> "e4"],
     e4 |-> [args |-> <<"x_e3">>, result |-> "x_e4", next |-> "e5"],
     e5 |-> [args |-> <<"x_e4">>, result |-> "x_e5", next |-> "d4"],
     d4 |-> [args |-> <<"x_e3", "x_e4", "x_e5">>, result |-> "x_d4", next |-> "d3"],
     d3 |-> [args |-> <<"x_e2", "x_e3", "x_e4", "x_d4">>, result |-> "x_d3", next |-> "d2"],
     d2 |-> [args |-> <<"x_e1", "x_e2", "x_e3", "x_d3">>, result |-> "x_d2", next |-> "d1"],
     d1 |-> [args |-> <<"x0", "x_e1", "x_e2", "x_d2">>, result |-> "x_d1", next |-> "upsample"]]

\* nn.Conv2d(in_channels, out_channels, kernel_size, stride, padding) on a
\* tensor of shape s: "raised" when the channels differ from in_channels or
\* the padded input is smaller than the kernel
PaddedConv2d(in_channels, out_channels, kernel_size, stride, padding, s) ==
    IF s[2] # in_channels
          \/ s[3] + 2 * padding < kernel_size \/ s[4] + 2 * padding < kernel_size
    THEN "raised"
    ELSE <<s[1], out_channels,
           OutSize(s[3] + 2 * padding, kernel_size, stride),
           OutSize(s[4] + 2 * padding, kernel_size, stride)>>

\* nn.MaxPool2d(kernel_size): the stride is the kernel size
MaxPool2d(kernel_size, s) ==
    IF s[3] < kernel_size \/ s[4] < kernel_size
    THEN "raised"
    ELSE <<s[1], s[2], OutSize(s[3], kernel_size, kernel_size),
           OutSize(s[4], kernel_size, kernel_size)>>

\* nn.Upsample(scale_factor=(2, 2), mode='bilinear', align_corners=True)
Upsample(s) == <<s[1], s[2], 2 * s[3], 2 * s[4]>>

\* torch.cat(ts, dim=1): the tensors must agree in every other dimension
Cat(ts) ==
    IF \E i \in 1 .. Len(ts) :
          ts[i][1] # ts[1][1] \/ ts[i][3] # ts[1][3] \/ ts[i][4] # ts[1][4]
    THEN "raised"
    ELSE <<ts[1][1], SumInts([i \in 1 .. Len(ts) |-> ts[i][2]]), ts[1][3], ts[1][4]>>

\* a + b with broadcasting
AddTensors(a, b) ==
    IF \E i \in 1 .. 4 : a[i] # b[i] /\ a[i] # 1 /\ b[i] # 1
    THEN "raised"
    ELSE LET dim(i) == IF a[i] = 1 THEN b[i] ELSE a[i]
         IN <<dim(1), dim(2), dim(3), dim(4)>>

NoFrame == [self |-> "", x |-> <<>>, x1 |-> <<>>, x2 |-> <<>>, x3 |-> <<>>, x4 |-> <<>>]

UnetIdle ==
    /\ upc = "idle" /\ tensors = <<>> /\ frame = NoFrame /\ ulog = <<>>

\* model = LDC_Unet(); model(x): x0 = x
UnetCall ==
    /\ \E n \in UnetBatchSizes, c \in UnetChannels, h \in UnetSides, w \in UnetSides :
          tensors = [t \in {"x0"} |-> <<n, c, h, w>>]
    /\ upc = "e1" /\ frame = NoFrame /\ ulog = <<>>

UnetOnly ==
    UNCHANGED <<trainVars, critVars, loadVars, convVars, prepVars, evalVars, calls,
                nbVars, ssrVars, preVars, modelVars>>

\* the local `name` of LDC_Unet.forward becomes v
Bind(name, v) == [t \in DOMAIN tensors \cup {name} |-> IF t = name THEN v ELSE tensors[t]]

\* a convolution of the module m is about to run on s
ConvEvent(m, layer, declared, s) ==
    [op |-> "conv", mod |-> m, layer |-> layer, declared |-> declared, got |-> s[2]]
\* torch.cat is about to run on ts in the module m
CatEvent(m, ts) == [op |-> "cat", mod |-> m, branches |-> ts]

\* local = out inside the module being run, continuing at `next` unless the
\* layer raised
Local(local, out, next) ==
    /\ tensors' = tensors
    /\ IF out = "raised"
       THEN upc' = "raised" /\ frame' = frame
       ELSE upc' = next /\ frame' = [frame EXCEPT ![local] = out]

\* the module returns out to LDC_Unet.forward
ReturnToUnet(out) ==
    IF out = "raised"
    THEN upc' = "raised" /\ UNCHANGED <<frame, tensors>>
    ELSE /\ tensors' = Bind(UnetCalls[frame.self].result, out)
         /\ upc' = UnetCalls[frame.self].next
         /\ frame' = NoFrame

\* ---- encoder.forward(x)
\* x_eK = self.eK(...): enter encoder.forward
CallEncoder ==
    /\ UnetOnly
    /\ upc \in DOMAIN EncoderModules
    /\ frame' = [NoFrame EXCEPT !.self = upc, !.x = tensors[UnetCalls[upc].args[1]]]
    /\ upc' = "enc_conv1"
    /\ UNCHANGED <<tensors, ulog>>

\* x1 = self.conv1(x); x1 = self.relu(x1)
EncConv1 ==
    /\ UnetOnly
    /\ upc = "enc_conv1"
    /\ LET m == EncoderModules[frame.self]
       IN /\ ulog' = Append(ulog, ConvEvent(frame.self, "conv1", m.in_channels, frame.x))
          /\ Local("x1", PaddedConv2d(m.in_channels, m.out_channels, 3, 2, 1, frame.x),
                   "enc_conv2")

\* x2 = self.conv2(x); x2 = self.relu(x2)
EncConv2 ==
    /\ UnetOnly
    /\ upc = "enc_conv2"
    /\ LET m == EncoderModules[frame.self]
       IN /\ ulog' = Append(ulog, ConvEvent(frame.self, "conv2", m.in_channels, frame.x))
          /\ Local("x2", PaddedConv2d(m.in_channels, m.out_channels, 3, 2, 1, frame.x),
                   "enc_conv3")

\* x2 = self.conv3(x2)
EncConv3 ==
    /\ UnetOnly
    /\ upc = "enc_conv3"
    /\ LET m == EncoderModules[frame.self]
       IN /\ ulog' = Append(ulog, ConvEvent(frame.self, "conv3", m.out_channels, frame.x2))
          /\ Local("x2", PaddedConv2d(m.out_channels, m.out_channels, 3, 1, 1, frame.x2),
                   "enc_add")

\* x = x1+x2; return x
EncReturn ==
    /\ UnetOnly
    /\ upc = "enc_add"
    /\ ReturnToUnet(AddTensors(frame.x1, frame.x2))
    /\ ulog' = ulog

\* ---- decoder_4.forward(x1, x2, x3) and decoder.forward(x1, x2, x3, x4)
\* x_d4 = self.d4(x_e3, x_e4, x_e5)
CallDecoder4 ==
    /\ UnetOnly
    /\ upc = "d4"
    /\ LET a == UnetCalls[upc].args
       IN frame' = [NoFrame EXCEPT !.self = upc, !.x1 = tensors[a[1]],
                                   !.x2 = tensors[a[2]], !.x3 = tensors[a[3]]]
    /\ upc' = "d4_pool1"
    /\ UNCHANGED <<tensors, ulog>>

\* x_dK = self.dK(.., .., .., ..) for d3, d2, d1
CallDecoder ==
    /\ UnetOnly
    /\ upc \in {"d3", "d2", "d1"}
    /\ LET a == UnetCalls[upc].args
       IN frame' = [NoFrame EXCEPT !.self = upc, !.x1 = tensors[a[1]],
                                   !.x2 = tensors[a[2]], !.x3 = tensors[a[3]],
                                   !.x4 = tensors[a[4]]]
    /\ upc' = "dec_pool1"
    /\ UNCHANGED <<tensors, ulog>>

\* x1 = self.pool1(x1), in either class
DecPool1 ==
    /\ UnetOnly
    /\ upc \in {"d4_pool1", "dec_pool1"}
    /\ Local("x1", MaxPool2d(2, frame.x1),
             IF upc = "d4_pool1" THEN "d4_conv1" ELSE "dec_conv1")
    /\ ulog' = ulog

\* x1 = self.conv1(x1), in either class
DecConv1 ==
    /\ UnetOnly
    /\ upc \in {"d4_conv1", "dec_conv1"}
    /\ LET c == DecoderModules[frame.self].c1
       IN /\ ulog' = Append(ulog, ConvEvent(frame.self, "conv1", c, frame.x1))
          /\ Local("x1", PaddedConv2d(c, 64, 3, 1, 1, frame.x1),
                   IF upc = "d4_conv1" THEN "d4_conv2" ELSE "dec_conv2")

\* x2 = self.conv2(x2), in either class
DecConv2 ==
    /\ UnetOnly
    /\ upc \in {"d4_conv2", "dec_conv2"}
    /\ LET c == DecoderModules[frame.self].c2
       IN /\ ulog' = Append(ulog, ConvEvent(frame.self, "conv2", c, frame.x2))
          /\ Local("x2", PaddedConv2d(c, 64, 3, 1, 1, frame.x2),
                   IF upc = "d4_conv2" THEN "d4_up1" ELSE "dec_up1")

\* x3 = self.upsample1(x3), in either class
DecUpsample1 ==
    /\ UnetOnly
    /\ upc \in {"d4_up1", "dec_up1"}
    /\ Local("x3", Upsample(frame.x3),
             IF upc = "d4_up1" THEN "d4_conv3" ELSE "dec_conv3")
    /\ ulog' = ulog

\* x3 = self.conv3(x3), in either class
DecConv3 ==
    /\ UnetOnly
    /\ upc \in {"d4_conv3", "dec_conv3"}
    /\ LET c == DecoderModules[frame.self].c3
       IN /\ ulog' = Append(ulog, ConvEvent(frame.self, "conv3", c, frame.x3))
          /\ Local("x3", PaddedConv2d(c, 64, 3, 1, 1, frame.x3),
                   IF upc = "d4_conv3" THEN "d4_cat" ELSE "dec_up2")

\* decoder_4: x = torch.cat((x1,x2,x3),dim=1); return x
Dec4Cat ==
    /\ UnetOnly
    /\ upc = "d4_cat"
    /\ LET ts == <<frame.x1, frame.x2, frame.x3>>
       IN /\ ulog' = Append(ulog, CatEvent(frame.self, ts))
          /\ ReturnToUnet(Cat(ts))

\* decoder: x4 = self.upsample2(x4)
DecUpsample2 ==
    /\ UnetOnly
    /\ upc = "dec_up2"
    /\ Local("x4", Upsample(frame.x4), "dec_conv4")
    /\ ulog' = ulog

\* decoder: x4 = self.conv4(x4)
DecConv4 ==
    /\ UnetOnly
    /\ upc = "dec_conv4"
    /\ LET c == DecoderModules[frame.self].c4
       IN /\ ulog' = Append(ulog, ConvEvent(frame.self, "conv4", c, frame.x4))
          /\ Local("x4", PaddedConv2d(c, 64, 3, 1, 1, frame.x4), "dec_cat")

\* decoder: x = torch.cat((x1,x2,x3,x4),dim=1); return x
DecCat ==
    /\ UnetOnly
    /\ upc = "dec_cat"
    /\ LET ts == <<frame.x1, frame.x2, frame.x3, frame.x4>>
       IN /\ ulog' = Append(ulog, CatEvent(frame.self, ts))
          /\ ReturnToUnet(Cat(ts))

\* ---- the last statements of LDC_Unet.forward
\* x = out, continuing at `next` unless the layer raised
UnetLocal(out, next) ==
    /\ frame' = frame
    /\ IF out = "raised"
       THEN upc' = "raised" /\ tensors' = tensors
       ELSE upc' = next /\ tensors' = Bind("x", out)

\* x = self.upsample(x_d1)
UnetUpsample ==
    /\ UnetOnly
    /\ upc = "upsample"
    /\ UnetLocal(Upsample(tensors["x_d1"]), "conv1")
    /\ ulog' = ulog

\* x = self.conv1(x)
UnetConv1 ==
    /\ UnetOnly
    /\ upc = "conv1"
    /\ ulog' = Append(ulog, ConvEvent("LDC_Unet", "conv1", 256, tensors["x"]))
    /\ UnetLocal(PaddedConv2d(256, 64, 3, 1, 1, tensors["x"]), "conv2")

\* x = self.conv2(x); return x
UnetConv2 ==
    /\ UnetOnly
    /\ upc = "conv2"
    /\ ulog' = Append(ulog, ConvEvent("LDC_Unet", "conv2", 64, tensors["x"]))
    /\ UnetLocal(PaddedConv2d(64, 3, 3, 1, 1, tensors["x"]), "done")

NextUnet ==
    \/ CallEncoder \/ EncConv1 \/ EncConv2 \/ EncConv3 \/ EncReturn
    \/ CallDecoder4 \/ CallDecoder \/ DecPool1 \/ DecConv1 \/ DecConv2
    \/ DecUpsample1 \/ DecConv3 \/ Dec4Cat \/ DecUpsample2 \/ DecConv4 \/ DecCat
    \/ UnetUpsample \/ UnetConv1 \/ UnetConv2

-----------------------------------------------------------------------------
(* Properties of train_model                                               *)

IsPrefix(s, t) == Len(s) <= Len(t) /\ s = SubSeq(t, 1, Len(s))

TrainFinished == tpc \in {"returned", "raised"}

\* the break statement has been executed
Broke == \E i \in 1 .. Len(trace) : trace[i][1] = "break"

\* best_loss as the early-stopping rule defines it, after the epochs of h
RECURSIVE BestOf(_, _)
BestOf(h, d) ==
    IF h = <<>> THEN Inf
    ELSE LET before == BestOf(SubSeq(h, 1, Len(h) - 1), d)
             last == h[Len(h)]
         IN IF FLess(last, FSubInt(before, d)) THEN last ELSE before

\* epoch i (1-based) had an average loss not strictly below best_loss - d
NotBelow(h, i, d) ==
    ~FLess(h[i], FSubInt(BestOf(SubSeq(h, 1, i - 1), d), d))

\* epoch i is one at which p consecutive epochs have each not been below
StopEpoch(h, i, p, d) ==
    /\ i >= p
    /\ \A j \in (i - p + 1) .. i : NotBelow(h, j, d)

\* C1: for patience >= 1 the epoch loop stops at the end of the first epoch
\* at which `patience` consecutive epochs have each had an average loss not
\* strictly below best_loss - min_delta, no batch is processed after that
\* epoch, and when there is no such epoch exactly `epochs` epochs are run.
C1_EarlyStopping ==
    patience >= 1 =>
        /\ \A i \in 1 .. Len(loss_history) - 1 :
               ~StopEpoch(loss_history, i, patience, min_delta)
        /\ StopEpoch(loss_history, Len(loss_history), patience, min_delta)
               => tpc \in {"save", "sched", "early", "return", "returned"}
        /\ (TrainFinished /\
               ~StopEpoch(loss_history, Len(loss_history), patience, min_delta))
               => epoch + 1 = epochs

\* C1 restricted to loaders with at least one batch (what the code does do)
C1_NonEmptyLoader == nb >= 1 => C1_EarlyStopping

C1_Witness ==
    /\ tpc = "returned" /\ patience = 2 /\ Len(loss_history) = 3 /\ epochs = 3
    /\ StopEpoch(loss_history, 3, patience, min_delta) /\ Broke

\* C2 (state part): the returned loss_history has one entry per executed
\* epoch; its length is at most epochs, is epochs when the loop did not
\* break, and is 0 when epochs = 0.
C2_Returned ==
    tpc = "returned" =>
        /\ Len(loss_history) = epoch + 1
        /\ Len(loss_history) <= epochs
        /\ ~Broke => Len(loss_history) = epochs
        /\ epochs = 0 => Len(loss_history) = 0

\* C2 (step part): loss_history only ever grows by one entry at its end, once
\* per epoch, and the entry is the sum of the epoch's batch losses divided by
\* the number of batches.
C2_Append ==
    loss_history' # loss_history =>
        /\ Len(epoch_items) = nb
        /\ Len(loss_history) = epoch
        /\ loss_history' = Append(loss_history, FDivInt(FSum(epoch_items), nb))

\* C2: train_model returns the list of epoch losses: one entry per executed
\* epoch, in epoch order, each the epoch's total batch loss divided by the
\* number of batches; its length is at most epochs, equals epochs when early
\* stopping did not trigger, and is 0 when epochs = 0.
C2_LossHistory == [](C2_Returned) /\ [][C2_Append]_vars

C2_Witness ==
    /\ tpc = "returned" /\ nb = 2 /\ Broke /\ Len(loss_history) = 2 /\ epochs = 3
    /\ loss_history[1] = Fin(1, 2) /\ loss_history[2] = Fin(2, 2)

\* the order of the calls made for one batch
BatchOrder(v) ==
    IF v = "LPI_Net"
    THEN <<"zero_grad", "forward", "loss", "backward", "clip", "step">>
    ELSE <<"zero_grad", "forward", "loss", "backward", "step">>

\* batches drawn from the loader so far
BatchesDrawn == IF epoch < 0 THEN 0 ELSE epoch * nb + batch

\* C3: every batch is processed in the order zero_grad, forward, loss,
\* backward, step, with clipping between backward and step in the LPI-Net
\* variant only; optimizer.step is called exactly once per batch and never
\* before that batch's backward.
C3_BatchOrder ==
    /\ IsPrefix(ops, BatchOrder(variant))
    /\ tpc \in {"item", "batch_head", "avg"} /\ batch > 0 => ops = BatchOrder(variant)
    /\ opt_steps = BatchesDrawn -
          (IF tpc \in {"zero_grad", "forward", "criterion", "backward", "clip", "step"}
           THEN 1 ELSE 0)
    /\ tpc = "item" => grad \in {"fresh", "clipped"}
    /\ tpc = "item" => (grad = "clipped" <=> variant = "LPI_Net")

C3_Witness ==
    /\ tpc = "item" /\ variant = "LPI_Net" /\ opt_steps = 4 /\ epoch = 1

\* C4: with a scheduler, scheduler.step is called exactly once per executed
\* epoch, after all optimizer steps of the epoch and before the
\* early-stopping decision, also on the epoch at which the loop breaks;
\* without a scheduler it is never called.
C4_SchedulerStep ==
    /\ ~scheduler => sched_steps = 0
    /\ scheduler =>
          sched_steps = Len(loss_history) - (IF tpc \in {"save", "sched"} THEN 1 ELSE 0)
    /\ tpc = "early" => opt_steps = nb * (epoch + 1)
    /\ \A i \in 1 .. Len(trace) :
          trace[i][1] = "sched" =>
             /\ i > 1 /\ trace[i - 1] \in {<<"avg", trace[i][2]>>, <<"save", trace[i][2]>>}
             /\ i < Len(trace) =>
                   trace[i + 1][1] \in {"improved", "waited", "break"}
                   /\ trace[i + 1][2] = trace[i][2]

C4_Witness ==
    /\ tpc = "returned" /\ scheduler /\ Broke /\ sched_steps = 2 /\ nb = 2

-----------------------------------------------------------------------------
(* Properties of load_spectrogram_h5s                                      *)

\* the name without its ".h5"
Stem(name) ==
    CHOOSE st \in {SubSeq(name, 1, n) : n \in 0 .. Len(name)} : st \o DotH5 = name

\* the files the walk has to open so far, in order: the .h5 files of the
\* listing of every directory that exists
RECURSIVE ListedFiles(_)
ListedFiles(dirs) ==
    IF dirs = <<>> THEN <<>>
    ELSE LET d == dirs[Len(dirs)]
             h5 == SelectSeq(d.listing, LAMBDA f : EndsWith(f, DotH5))
         IN ListedFiles(SubSeq(dirs, 1, Len(dirs) - 1)) \o
            [i \in 1 .. Len(h5) |-> <<d.dir, h5[i]>>]

\* the files opened so far
OpenedFiles == [i \in 1 .. Len(seen_files) |-> <<seen_files[i].dir, seen_files[i].file>>]

\* the number of keys of a file that are read before the first exception
RECURSIVE ReadCount(_, _)
ReadCount(e, n) ==
    IF ~e.opens THEN 0
    ELSE IF n >= Len(e.keys) THEN n
    ELSE IF IsNumeral(e.keys[n + 1]) /\ e.bad # n + 1 THEN ReadCount(e, n + 1)
    ELSE n

\* opening or reading the file raises
Fails(e) == ReadCount(e, 0) < Len(e.keys) \/ ~e.opens

\* the files whose processing is over
FilesDone ==
    IF lpc \in {"for_key"} THEN Len(seen_files) - 1 ELSE Len(seen_files)

Count(s, P(_)) == Cardinality({i \in 1 .. Len(s) : P(s[i])})

\* C5: an exception raised while opening or reading one .h5 file is caught
\* and logged, the file is not tried again, and the load goes on: every other
\* .h5 file of every listed modulation type is processed and the function
\* returns normally.
C5_CatchAndLog ==
    /\ lpc \in {"entry", "for_mod", "exists", "listdir", "for_file", "open",
                 "for_key", "return", "returned"}
    /\ lpc # "returned" => ENABLED NextLoad
    /\ Count(printed, LAMBDA m : m[1] = "failed")
          = Cardinality({i \in 1 .. FilesDone : Fails(seen_files[i])})
    /\ \A i \in 1 .. FilesDone :
          Fails(seen_files[i]) => <<"failed", seen_files[i].file>> \in
                                     {printed[j] : j \in 1 .. Len(printed)}
    /\ IsPrefix(OpenedFiles, ListedFiles(seen_dirs))
    /\ lpc = "returned" =>
          /\ OpenedFiles = ListedFiles(seen_dirs)
          /\ Len(seen_dirs) = Len(mod_types)

C5_Witness ==
    /\ lpc = "returned" /\ Len(seen_files) = 3
    /\ ~seen_files[1].opens
    /\ seen_files[2].opens /\ Fails(seen_files[2])
    /\ ~Fails(seen_files[3]) /\ Len(seen_files[3].keys) = 2
    /\ seen_files[3].dir # seen_files[1].dir

LastWithStem(st) ==
    seen_files[CHOOSE i \in 1 .. Len(seen_files) :
                  /\ Stem(seen_files[i].file) = st
                  /\ \A j \in (i + 1) .. Len(seen_files) : Stem(seen_files[j].file) # st]

C7_MissingDirectory ==
    /\ \A i \in 1 .. Len(seen_dirs) : seen_dirs[i].dir = mod_types[i]
    /\ \A i \in 1 .. Len(seen_dirs) :
          ~seen_dirs[i].exists <=>
              <<"warning", seen_dirs[i].dir>> \in {printed[j] : j \in 1 .. Len(printed)}
    /\ \A i \in 1 .. Len(seen_files) :
          \E d \in 1 .. Len(seen_dirs) :
              seen_dirs[d].dir = seen_files[i].dir /\ seen_dirs[d].exists
    /\ DictKeySet(spectrogram_dict) =
          {Stem(seen_files[i].file) : i \in 1 .. Len(seen_files)}
             \cup (IF lpc = "open" THEN {mod_name} ELSE {})
    /\ lpc = "returned" =>
          /\ Len(seen_dirs) = Len(mod_types)
          /\ OpenedFiles = ListedFiles(seen_dirs)

C7_Witness ==
    /\ lpc = "returned" /\ Len(seen_dirs) = 2
    /\ ~seen_dirs[1].exists /\ seen_dirs[2].exists
    /\ Len(seen_files) = 2 /\ ~Fails(seen_files[1]) /\ Len(seen_files[1].keys) = 2
    /\ Len(spectrogram_dict) = 2

-----------------------------------------------------------------------------
(* Properties of prepare_dataloader                                        *)

ValidType(t) == t \in {"ndarray", "Tensor"}

\* C8: prepare_dataloader raises TypeError, without building a dataset or a
\* loader, when X is neither a NumPy array nor a tensor, and likewise when y
\* is neither; X is checked first, so when both are invalid the error is the
\* one about X.
C8_TypeErrors ==
    /\ ppc \notin {"returned", "raised"} => ENABLED NextPrep
    /\ ppc = "raised" => dataset = <<>> /\ loader = <<>>
    /\ ~ValidType(X.type) =>
          /\ ppc \in {"check_x", "raised"}
          /\ ppc = "raised" => error = "TypeError: Input X"
    /\ ValidType(X.type) /\ ~ValidType(y.type) =>
          /\ ppc \in {"check_x", "check_y", "raised"}
          /\ ppc = "raised" => error = "TypeError: Labels y"

C8_Witness ==
    /\ ppc = "raised" /\ error = "TypeError: Input X"
    /\ X.type = "list" /\ y.type = "list" /\ dataset = <<>>

\* C9 as claimed: for every accepted X the tensor placed in the dataset has
\* four dimensions with the channel axis at position 1.
C9_FourDims ==
    ppc = "returned" =>
        /\ Len(dataset[1].X.shape) = 4
        /\ dataset[1].X.shape[2].name = "C"

-----------------------------------------------------------------------------
(* Properties of convert_spectrogram_dict_to_xy                            *)

RECURSIVE TotalSamples(_)
TotalSamples(d) ==
    IF d = <<>> THEN 0 ELSE Len(d[1][2]) + TotalSamples(Tail(d))

\* C10: convert_spectrogram_dict_to_xy returns X and y of equal length N, the
\* total number of spectrograms of the input; y[i] is the label of the class
\* X[i] was taken from; the samples of one class are contiguous, classes
\* appear in the dict's iteration order and, within a class, samples are in
\* ascending index order.
C10_XY ==
    cpc = "returned" =>
        /\ Len(X_arr) = TotalSamples(data_dict)
        /\ Len(y_arr) = TotalSamples(data_dict)
        /\ \A i \in 1 .. Len(X_arr) :
              /\ DictHas(data_dict, y_arr[i])
              /\ \E j \in 1 .. Len(DictGet(data_dict, y_arr[i])) :
                    DictGet(data_dict, y_arr[i])[j][2] = X_arr[i]
        /\ \A c \in 1 .. Len(data_dict) : \A j \in 1 .. Len(data_dict[c][2]) :
              \E i \in 1 .. Len(X_arr) :
                  X_arr[i] = data_dict[c][2][j][2] /\ y_arr[i] = data_dict[c][1]
        /\ \A i, j \in 1 .. Len(X_arr) :
              i < j =>
                 /\ DictIndex(data_dict, y_arr[i]) <= DictIndex(data_dict, y_arr[j])
                 /\ y_arr[i] = y_arr[j] => X_arr[i].idx < X_arr[j].idx

C10_Witness ==
    /\ cpc = "returned" /\ Len(data_dict) = 2 /\ Len(X_arr) = 4
    /\ DictKeys(data_dict[1][2]) = <<2, 0>>
    /\ DictKeys(data_dict[2][2]) = <<1, 0>>

-----------------------------------------------------------------------------
(* The parameters of the criterion                                         *)

\* C12: in the LDC-Unet train_model the centers of SSRLoss are among the
\* parameters the optimizer zeroes and steps: every optimizer.step() updates
\* them and every optimizer.zero_grad() leaves their gradient zeroed.
C12_LearnableCenters ==
    variant = "LDC_Unet" =>
       /\ centers = opt_steps
       /\ tpc = "forward" => centers_grad = "zero"

-----------------------------------------------------------------------------
(* Termination and the early-stopping bookkeeping of train_model            *)

\* the optimizer never steps more often than epochs times the number of batches
C14_Bound == opt_steps <= epochs * nb

EndOfEpoch == epoch >= 0 /\ tpc \in {"epoch_head", "return", "returned"}

\* the last epoch at which best_loss was assigned (-1: never)
LastImproved ==
    LET es == {trace[i][2] : i \in {j \in 1 .. Len(trace) : trace[j][1] = "improved"}}
    IN IF es = {} THEN -1 ELSE CHOOSE e \in es : \A f \in es : f <= e

AllFinite(h) == \A i \in 1 .. Len(h) : h[i].k = "fin"

\* C15 (state part): at the end of every epoch best_loss is +infinity or an
\* entry of loss_history, patience_counter is not negative and is the number
\* of epochs executed since best_loss was last assigned, and with
\* min_delta = 0 and finite losses best_loss is the minimum of loss_history.
C15_EndOfEpoch ==
    EndOfEpoch =>
        /\ best_loss = Inf \/ \E i \in 1 .. Len(loss_history) : loss_history[i] = best_loss
        /\ patience_counter >= 0
        /\ patience_counter = epoch - LastImproved
        /\ (min_delta = 0 /\ AllFinite(loss_history)) =>
              /\ \E i \in 1 .. Len(loss_history) : FEq(loss_history[i], best_loss)
              /\ \A i \in 1 .. Len(loss_history) : ~FLess(loss_history[i], best_loss)

\* C15 as stated: the state part, and best_loss never increases from one
\* epoch to the next, whatever min_delta is.
C15_BestLoss == [](C15_EndOfEpoch) /\ [][~FLess(best_loss, best_loss')]_vars

\* C15 amended: the state part, and best_loss never increases from one epoch
\* to the next when min_delta >= 0.
C15_BestLossNonNegDelta ==
    [](C15_EndOfEpoch) /\ [][min_delta >= 0 => ~FLess(best_loss, best_loss')]_vars

C15_Witness ==
    /\ tpc = "returned" /\ min_delta = 0 /\ nb = 2 /\ Len(loss_history) = 3
    /\ loss_history[1] = Fin(2, 2) /\ loss_history[2] = Fin(1, 2)
    /\ best_loss = Fin(1, 2) /\ patience_counter = 1 /\ loss_history[3] = NaN

\* C16: with finite epoch losses and patience >= 1 the first epoch counts as
\* an improvement, the loop does not break before epoch patience + 1, and a
\* call that returns has executed at least min(epochs, patience + 1) epochs.
C16_NoEarlyStop ==
    (patience >= 1 /\ AllFinite(loss_history)) =>
        /\ \A i \in 1 .. Len(trace) :
              trace[i][2] = 0 => trace[i][1] \notin {"waited", "break"}
        /\ Broke => epoch + 1 >= patience + 1
        /\ tpc = "returned" =>
              Len(loss_history) >= (IF epochs < patience + 1 THEN epochs ELSE patience + 1)

C16_Witness ==
    /\ tpc = "returned" /\ Broke /\ patience = 1 /\ epochs = 3
    /\ Len(loss_history) = 2 /\ AllFinite(loss_history)

\* the events of epoch e in the trace, in order
EpochEvents(e) ==
    LET idx == {i \in 1 .. Len(trace) : trace[i][2] = e /\ trace[i][1] # "epoch"}
        RECURSIVE Pick(_, _)
        Pick(i, acc) ==
            IF i > Len(trace) THEN acc
            ELSE Pick(i + 1, IF i \in idx THEN Append(acc, trace[i][1]) ELSE acc)
    IN Pick(1, <<>>)

\* epoch e has got past the place of the checkpoint
PastSave(e) ==
    \/ e < epoch
    \/ e = epoch /\ tpc \in {"sched", "early", "epoch_head", "return", "returned"}

\* the last epoch up to e whose index is not a multiple of 5 (-1: none)
LastSaveEpoch(e) ==
    LET es == {f \in 0 .. e : f % 5 # 0}
    IN IF es = {} THEN -1 ELSE CHOOSE f \in es : \A g \in es : g <= f

\* C17: in the LDC-Unet train_model the checkpoint is written at the end of
\* epoch e exactly when e mod 5 # 0, after the average of the epoch and before
\* its scheduler step and early-stopping check; a run with epochs = 1 writes
\* none, and after a run the checkpoint, if there is one, holds the model as
\* of the last executed epoch whose index is not a multiple of 5.
C17_Checkpoint ==
    /\ variant # "LDC_Unet" => checkpoint = <<>>
    /\ variant = "LDC_Unet" =>
          /\ \A e \in 0 .. epoch :
                LET ev == EpochEvents(e) IN
                /\ (\E i \in 1 .. Len(ev) : ev[i] = "save") <=> (e % 5 # 0 /\ PastSave(e))
                /\ (e % 5 # 0 /\ PastSave(e)) =>
                      /\ ev[1] = "avg" /\ ev[2] = "save"
                      /\ \A i \in 3 .. Len(ev) : ev[i] # "save"
          /\ epochs = 1 => checkpoint = <<>>
          /\ tpc = "returned" =>
                checkpoint = IF LastSaveEpoch(epoch) = -1 THEN <<>>
                             ELSE <<(LastSaveEpoch(epoch) + 1) * nb>>

C17_Witness ==
    /\ tpc = "returned" /\ variant = "LDC_Unet" /\ epochs = 6
    /\ Len(loss_history) = 6 /\ checkpoint = <<5>> /\ opt_steps = 6

-----------------------------------------------------------------------------
(* Properties of evaluate_model and display_confusion_matrix               *)

\* the samples of the batches drawn so far
RECURSIVE Flatten(_)
Flatten(bs) == IF bs = <<>> THEN <<>> ELSE bs[1] \o Flatten(Tail(bs))

\* C13: in evaluate_model on a non-empty loader, after every batch
\* len(y_true) = len(y_pred) = total, the number of samples drawn, correct is
\* the number of samples whose prediction equals its label and
\* 0 <= correct <= total; the accuracy reported is 100 * correct / total over
\* all samples of the loader and lies in [0, 100].
C13_Accuracy ==
    (efn = "evaluate_model" /\ eloader # <<>>) =>
        /\ epc = "batch_head" =>
              /\ Len(y_true) = total /\ Len(y_pred) = total
              /\ y_true = Flatten(SubSeq(eloader, 1, ei))
              /\ correct = Agree(y_pred, y_true)
              /\ 0 <= correct /\ correct <= total
        /\ epc \in {"report", "returned"} =>
              /\ total = Len(Flatten(eloader))
              /\ accuracy = <<Fin(100 * Agree(y_pred, y_true), total)>>
              /\ ~FLess(accuracy[1], Fin(0, 1))
              /\ ~FLess(Fin(100, 1), accuracy[1])
        /\ epc # "accuracy" => (accuracy = <<>> <=> epc \notin {"report", "returned", "raised"})

C13_Witness ==
    /\ efn = "evaluate_model" /\ epc = "returned" /\ Len(eloader) = 2
    /\ total = 3 /\ correct = 2 /\ accuracy = <<Fin(200, 3)>>

-----------------------------------------------------------------------------
(* The mode of the model over a session                                    *)

LastCall == IF calls = <<>> THEN "none" ELSE calls[Len(calls)]

\* C18: over any sequence of calls on the same model, every forward pass of
\* train_model runs in training mode, every forward pass of
\* display_confusion_matrix and evaluate_model runs in evaluation mode with
\* gradient tracking disabled, and after an evaluation function the model
\* stays in evaluation mode until train_model is called again.
C18_Modes ==
    /\ tpc \in {"forward", "criterion"} => training
    /\ (LastCall = "train_model" /\ tpc # "entry") => training
    /\ \A i \in 1 .. Len(fwd) : ~fwd[i].training /\ ~fwd[i].grad
    /\ epc \in {"forward", "argmax"} => ~training /\ ~grad_enabled
    /\ (LastCall \in EvalFns /\ epc # "entry") => ~training

C18_Witness ==
    /\ calls = <<"train_model", "evaluate_model", "train_model">>
    /\ tpc = "criterion" /\ training

-----------------------------------------------------------------------------
(* The order of the stages of a notebook                                   *)

\* the stage of the pipeline a call belongs to
StageOf(call) ==
    CASE call = "load_spectrogram_h5s" -> "load"
      [] call = "convert_spectrogram_dict_to_xy" -> "convert"
      [] call = "pre_processing" -> "pre-process"
      [] call = "train_test_split" -> "split"
      [] call = "MainModel" -> "build"
      [] call = "train_model" -> "train"
      [] call \in {"plot_loss_curve", "display_confusion_matrix", "evaluate_model"}
            -> "evaluate"
      [] call = "torch.save" -> "serialize"

StageOrder ==
    <<"load", "convert", "pre-process", "split", "build", "train", "evaluate",
      "serialize">>

\* the position of x in the sequence s of distinct entries
Rank(s, x) == CHOOSE i \in 1 .. Len(s) : s[i] = x

\* C11 as stated: the stages are executed in the order load, convert,
\* pre-process, split, build, train, evaluate and plot metrics, serialize; the
\* model file is written only after the evaluation of the model.
C11_StageOrder ==
    \A i, j \in 1 .. Len(stages) :
       i < j => Rank(StageOrder, StageOf(stages[i])) <= Rank(StageOrder, StageOf(stages[j]))

\* the stages with the evaluation split at the place of torch.save
StageOfSplit(call) ==
    IF call \in {"plot_loss_curve", "display_confusion_matrix"} THEN "plot"
    ELSE IF call = "evaluate_model" THEN "test"
    ELSE StageOf(call)

StageOrderSplit ==
    <<"load", "convert", "pre-process", "split", "build", "train", "plot",
      "serialize", "test">>

\* C11 amended: the stages are executed in the order load, convert,
\* pre-process, split, build, train, plot the loss curve and the confusion
\* matrix of the training data, serialize, evaluate_model on the test data;
\* the model file is written after display_confusion_matrix and before
\* evaluate_model, and a run that reaches the last cell has made every stage.
C11_PipelineOrder ==
    /\ \A i, j \in 1 .. Len(stages) :
          i < j => Rank(StageOrderSplit, StageOfSplit(stages[i]))
                      <= Rank(StageOrderSplit, StageOfSplit(stages[j]))
    /\ disk # {} =>
          /\ \E i \in 1 .. Len(stages) : stages[i] = "display_confusion_matrix"
          /\ \E i \in 1 .. Len(stages) : stages[i] = "torch.save"
    /\ (\E i \in 1 .. Len(stages) : stages[i] = "evaluate_model") => disk # {}
    /\ (ncell = Len(Cells(variant)) /\ halted = "") =>
          {StageOfSplit(stages[i]) : i \in 1 .. Len(stages)}
             = {StageOrderSplit[i] : i \in 1 .. Len(StageOrderSplit)}

C11_Witness ==
    /\ ncell > 0 /\ ncell = Len(Cells(variant)) /\ halted = "" /\ disk # {}
    /\ stages[Len(stages)] = "evaluate_model"

-----------------------------------------------------------------------------
(* Properties of SSRLoss.forward                                           *)

\* the same float: both NaN, or equal
SameFloat(a, b) == (a.k = "nan" /\ b.k = "nan") \/ FEq(a, b)

\* the sum over the samples i and the coordinates j of
\* |features[i][j] - centers[labels[i]][j]|
AbsDiffTotal ==
    LET D == Len(self_centers[1])
        cell(n) == LET i == ((n - 1) \div D) + 1
                       j == ((n - 1) % D) + 1
                   IN AbsInt(features[i][j] - self_centers[ssr_labels[i] + 1][j])
    IN SumInts([n \in 1 .. Len(features) * D |-> cell(n)])

OwnCenters ==
    \A i \in 1 .. Len(features) : features[i] = self_centers[ssr_labels[i] + 1]

\* C19: SSRLoss.forward returns cross_entropy(logits, labels) plus lambda_reg
\* times the mean absolute difference between features and the centers of
\* the samples' classes; with lambda_reg >= 0 the result is never below the
\* cross-entropy term, and it equals that term when every feature vector
\* equals the center of its class.
C19_SSRLoss ==
    spc = "done" =>
       LET D == Len(self_centers[1])
           ce == cross_entropy(logits, ssr_labels)
           mad == Mean(AbsDiffTotal, Len(features) * D)
       IN /\ SameFloat(loss_softmax, ce)
          /\ \A i \in 1 .. Len(ssr_labels) :
                centers_batch[i] = self_centers[ssr_labels[i] + 1]
          /\ SameFloat(loss, FAdd(ce, FMul(lambda_reg, mad)))
          /\ ~FLess(lambda_reg, Fin(0, 1)) => ~FLess(loss, ce)
          /\ (~FLess(lambda_reg, Fin(0, 1)) /\ OwnCenters) => SameFloat(loss, ce)

\* a batch of two samples of different classes, some feature off its center
C19_Witness ==
    /\ spc = "done" /\ Len(features) = 2 /\ ssr_labels[1] # ssr_labels[2]
    /\ self_centers[1] # self_centers[2]
    /\ lambda_reg = Fin(3, 25) /\ ~OwnCenters /\ FLess(loss_softmax, loss)

-----------------------------------------------------------------------------
(* Shapes in the STFT-CNN pipeline                                         *)

\* C20: pre_processing returns one image per input image, in input order,
\* each 40x40 and without a negative entry; on a 3-channel 40x40 input the
\* layers of MainModel give 6x36x36, 6x18x18, 12x14x14, 12x7x7, then the 588
\* features the final linear layer takes, then num_classes outputs.
C20_Shapes ==
    /\ qpc = "done" =>
          /\ Len(returned) = Len(images)
          /\ \A i \in 1 .. Len(returned) :
                /\ returned[i].id = images[i].id
                /\ returned[i].size = <<40, 40>>
                /\ ~returned[i].negative
    /\ (mpc # "idle" /\ input_shape = <<3, 40, 40>>) =>
          /\ mpc # "raised"
          /\ IsPrefix(layer_shapes,
                      << <<6, 36, 36>>, <<6, 18, 18>>, <<12, 14, 14>>, <<12, 7, 7>>,
                         <<588>>, <<num_classes>> >>)
          /\ mpc = "fc" => x_shape = <<fc_in_features>>
          /\ mpc = "done" => Len(layer_shapes) = 6 /\ x_shape = <<num_classes>>

\* two larger images with entries that differ were pre-processed, and the
\* model has run on a 3-channel 40x40 input
C20_Witness ==
    /\ qpc = "done" /\ Len(returned) = 2
    /\ \A i \in 1 .. 2 : images[i].size = <<224, 224>> /\ images[i].kind = "varied"
    /\ returned[1].kind = "varied"
    /\ mpc = "done" /\ input_shape = <<3, 40, 40>>

-----------------------------------------------------------------------------
(* Shapes in LDC_Unet                                                      *)

\* the input is (N, 3, H, W) with H and W multiples of 32
UnetInputFits ==
    /\ upc # "idle"
    /\ tensors["x0"][2] = 3
    /\ tensors["x0"][3] % 32 = 0 /\ tensors["x0"][4] % 32 = 0

\* C21: for every input (N, 3, H, W) with H and W multiples of 32, the branches
\* each decoder concatenates have the same spatial size, every convolution
\* receives the number of channels it was declared with, d4 yields 192
\* channels and d3, d2, d1 yield 256, and the output has the shape of the
\* input.
C21_UnetShapes ==
    UnetInputFits =>
       /\ upc # "raised"
       /\ \A i \in 1 .. Len(ulog) :
             /\ ulog[i].op = "conv" => ulog[i].got = ulog[i].declared
             /\ ulog[i].op = "cat" =>
                   \A j \in 1 .. Len(ulog[i].branches) :
                      /\ ulog[i].branches[j][3] = ulog[i].branches[1][3]
                      /\ ulog[i].branches[j][4] = ulog[i].branches[1][4]
       /\ "x_d4" \in DOMAIN tensors => tensors["x_d4"][2] = 192
       /\ \A d \in {"x_d3", "x_d2", "x_d1"} :
             d \in DOMAIN tensors => tensors[d][2] = 256
       /\ upc = "done" =>
             /\ tensors["x"] = tensors["x0"]
             /\ Cardinality({i \in 1 .. Len(ulog) : ulog[i].op = "cat"}) = 4

\* the network has run to its end on a batch of two 64x32 inputs
C21_Witness ==
    /\ upc = "done" /\ tensors["x0"] = <<2, 3, 64, 32>>
    /\ tensors["x"] = <<2, 3, 64, 32>>
    /\ tensors["x_d4"] = <<2, 192, 4, 2>>

-----------------------------------------------------------------------------
(* Specifications: one per function                                        *)

\* nothing but the function of the specification is running
OthersIdle == NotebookIdle /\ SSRIdle /\ PreIdle /\ ModelIdle /\ UnetIdle
Rest == EvalIdle /\ calls = <<>> /\ OthersIdle

InitTrain == TrainCall /\ LoadIdle /\ ConvIdle /\ PrepIdle /\ Rest
SpecTrain == InitTrain /\ [][NextTrain]_vars
\* the interpreter keeps executing the call until it returns or raises; the
\* call is made with the default min_delta on a model in evaluation mode
InitTrainFair == InitTrain /\ min_delta = 0 /\ ~training
SpecTrainFair == InitTrainFair /\ [][NextTrain]_vars /\ WF_vars(NextTrain)

InitLongRun == LongCall /\ LoadIdle /\ ConvIdle /\ PrepIdle /\ Rest
SpecLongRun == InitLongRun /\ [][NextTrain]_vars

InitLoad == LoadCall /\ TrainIdle /\ ConvIdle /\ PrepIdle /\ Rest
SpecLoad == InitLoad /\ [][NextLoad]_vars

InitConv == ConvCall /\ TrainIdle /\ LoadIdle /\ PrepIdle /\ Rest
SpecConv == InitConv /\ [][NextConv]_vars

InitPrep == PrepCall /\ TrainIdle /\ LoadIdle /\ ConvIdle /\ Rest
SpecPrep == InitPrep /\ [][NextPrep]_vars

\* evaluate_model or display_confusion_matrix called on a model in either mode
InitEval ==
    /\ EvalCall /\ LoadIdle /\ ConvIdle /\ PrepIdle /\ calls = <<>> /\ OthersIdle
    /\ \E v \in Variants, m \in BOOLEAN :
          /\ variant = v /\ training = m
          /\ epochs = 0 /\ patience = 0 /\ min_delta = 0
          /\ scheduler = FALSE /\ nb = 0 /\ tpc = "idle" /\ epoch = -1 /\ batch = 0
          /\ total_loss = Fin(0, 1) /\ loss_history = <<>> /\ best_loss = Inf
          /\ patience_counter = 0 /\ grad = "none"
          /\ opt_steps = 0 /\ sched_steps = 0 /\ checkpoint = <<>> /\ ops = <<>>
          /\ epoch_items = <<>> /\ trace = <<>>
          /\ centers = 0 /\ centers_grad = "none"
SpecEval == InitEval /\ [][NextEval]_vars

\* a model in either mode, nothing called yet
InitSession ==
    /\ variant \in Variants /\ training \in BOOLEAN
    /\ epochs = 0 /\ patience = 0 /\ min_delta = 0
    /\ scheduler = FALSE /\ nb = 0 /\ tpc = "idle" /\ epoch = -1 /\ batch = 0
    /\ total_loss = Fin(0, 1) /\ loss_history = <<>> /\ best_loss = Inf
    /\ patience_counter = 0 /\ grad = "none"
    /\ opt_steps = 0 /\ sched_steps = 0 /\ checkpoint = <<>> /\ ops = <<>>
    /\ epoch_items = <<>> /\ trace = <<>>
    /\ centers = 0 /\ centers_grad = "none"
    /\ LoadIdle /\ ConvIdle /\ PrepIdle /\ EvalIdle /\ calls = <<>> /\ OthersIdle
SpecSession == InitSession /\ [][NextSession]_vars

\* a fresh kernel of one of the three notebooks
InitNotebook ==
    /\ NotebookIdle /\ SSRIdle /\ PreIdle /\ ModelIdle /\ UnetIdle /\ LoadIdle /\ ConvIdle /\ PrepIdle /\ EvalIdle /\ calls = <<>>
    /\ variant \in Variants /\ training = FALSE
    /\ epochs = 0 /\ patience = 0 /\ min_delta = 0
    /\ scheduler = FALSE /\ nb = 0 /\ tpc = "idle" /\ epoch = -1 /\ batch = 0
    /\ total_loss = Fin(0, 1) /\ loss_history = <<>> /\ best_loss = Inf
    /\ patience_counter = 0 /\ grad = "none"
    /\ opt_steps = 0 /\ sched_steps = 0 /\ checkpoint = <<>> /\ ops = <<>>
    /\ epoch_items = <<>> /\ trace = <<>>
    /\ centers = 0 /\ centers_grad = "none"
SpecNotebook == InitNotebook /\ [][NextNotebook]_vars

\* the criterion called on a batch
InitSSR ==
    /\ SSRCall /\ TrainIdle /\ LoadIdle /\ ConvIdle /\ PrepIdle /\ EvalIdle
    /\ calls = <<>> /\ NotebookIdle /\ PreIdle /\ ModelIdle /\ UnetIdle
SpecSSR == InitSSR /\ [][NextSSR]_vars

\* pre_processing called on a list of images, MainModel not yet called
InitShape ==
    /\ PreCall /\ ModelIdle /\ TrainIdle /\ LoadIdle /\ ConvIdle /\ PrepIdle
    /\ EvalIdle /\ calls = <<>> /\ NotebookIdle /\ SSRIdle /\ UnetIdle
SpecShape == InitShape /\ [][NextShape]_vars

\* LDC_Unet called on a batch
InitUnet ==
    /\ UnetCall /\ TrainIdle /\ LoadIdle /\ ConvIdle /\ PrepIdle /\ EvalIdle
    /\ calls = <<>> /\ NotebookIdle /\ SSRIdle /\ PreIdle /\ ModelIdle
SpecUnet == InitUnet /\ [][NextUnet]_vars

=============================================================================
